---- MODULE Spec2Model ----
\* Model of the yadi dependency-injection container (package di):
\* src/container.go (Container, binding, options) and the Lazy helper.
\*
\* A top-level call (Bind, Resolve/ResolveNamed, Clear) runs on a caller's
\* thread.  The registry lock is a sync.RWMutex, every binding carries a
\* sync.Mutex.  Nested resolution is a stack of frames per thread.
\* An instance is identified by the index of the factory invocation that
\* produced it (a factory returns a fresh, non-nil object or a failure).
EXTENDS Integers, Sequences, FiniteSets, TLC

\* ---------------------------------------------------------------- bounds
\* Number of top-level calls issued in one behaviour.
MaxOps == 4

\* Number of nested resolutions a thread's stack has room for.
MaxDepth == 3

\* ------------------------------------------------------- types and names
Threads == {1, 2}

NoErr == [kind |-> "nil", type |-> "", name |-> ""]

Err(k, ty, n) == [kind |-> k, type |-> ty, name |-> n]

\* The resolvers the callers register: those of the package's tests, two
\* that take a parameter of the type of their own first result, and two
\* services that take each other.
\* kind is reflect.Kind of the resolver, in its parameter types (NumIn/In),
\* out its result types (NumOut/Out).
Resolvers ==
  [ newDatabase     |-> [kind |-> "func", in |-> << >>, out |-> <<"Database">>],
    newDatabaseErr  |-> [kind |-> "func", in |-> << >>, out |-> <<"Database", "error">>],
    newUserService  |-> [kind |-> "func", in |-> <<"Database">>, out |-> <<"UserService">>],
    NewServiceE     |-> [kind |-> "func", in |-> <<"Lazy[ServiceF]">>, out |-> <<"*ServiceE">>],
    NewServiceF     |-> [kind |-> "func", in |-> <<"*ServiceE">>, out |-> <<"*ServiceF">>],
    selfFirst       |-> [kind |-> "func", in |-> <<"UserService", "Database">>,
                         out |-> <<"UserService">>],
    selfLast        |-> [kind |-> "func", in |-> <<"Database", "UserService">>,
                         out |-> <<"UserService", "error">>],
    selfDatabase    |-> [kind |-> "func", in |-> <<"Database">>, out |-> <<"Database">>],
    notAFunction    |-> [kind |-> "string", in |-> << >>, out |-> << >>],
    noReturn        |-> [kind |-> "func", in |-> << >>, out |-> << >>],
    threeReturns    |-> [kind |-> "func", in |-> << >>, out |-> <<"Database", "Logger", "error">>],
    newLoggedUserService |-> [kind |-> "func", in |-> <<"Database", "Logger">>,
                              out |-> <<"UserService">>],
    newRegistrar    |-> [kind |-> "func", in |-> << >>, out |-> <<"Registrar">>],
    newLocator      |-> [kind |-> "func", in |-> << >>, out |-> <<"Locator", "error">>],
    newLogger       |-> [kind |-> "func", in |-> << >>, out |-> <<"Logger">>],
    newCycleA       |-> [kind |-> "func", in |-> <<"CycleB">>, out |-> <<"CycleA">>],
    newCycleB       |-> [kind |-> "func", in |-> <<"CycleA">>, out |-> <<"CycleB">>] ]

\* The factories whose body calls Bind on the container that runs them.
Reentrant == {"newRegistrar"}

\* The factories whose body calls Resolve on the container that runs them,
\* directly or through a handle Lazy[T]{Container: c}, and return the error
\* if there is one; Locates is the type they ask for.
Locating == {"newLocator"}

Locates == [newLocator |-> "Database"]

NumIn(r) == Len(Resolvers[r].in)

NumOut(r) == Len(Resolvers[r].out)

\* ---------------------------------------------------------------- options
WithName(n) == [opt |-> "WithName", name |-> n]

WithSingleton == [opt |-> "WithSingleton", name |-> ""]

WithTransient == [opt |-> "WithTransient", name |-> ""]

WithLazy == [opt |-> "WithLazy", name |-> ""]

WithEager == [opt |-> "WithEager", name |-> ""]

\* ApplyOption with a WithTransient that leaves the lifecycle alone.
ApplyOption_TransientIgnored(config, o) ==
  CASE o.opt = "WithName"      -> [config EXCEPT !.name = o.name]
    [] o.opt = "WithSingleton" -> [config EXCEPT !.singleton = TRUE]
    [] o.opt = "WithTransient" -> config
    [] o.opt = "WithLazy"      -> [config EXCEPT !.lazy = TRUE]
    [] o.opt = "WithEager"     -> [config EXCEPT !.lazy = FALSE]

\* One option applied to a bindConfig.
ApplyOption(config, o) ==
  CASE o.opt = "WithName"      -> [config EXCEPT !.name = o.name]
    [] o.opt = "WithSingleton" -> [config EXCEPT !.singleton = TRUE]
    [] o.opt = "WithTransient" -> [config EXCEPT !.singleton = FALSE]
    [] o.opt = "WithLazy"      -> [config EXCEPT !.lazy = TRUE]
    [] o.opt = "WithEager"     -> [config EXCEPT !.lazy = FALSE]

RECURSIVE ApplyOptions(_, _)
ApplyOptions(config, opts) ==
  IF opts = << >> THEN config
  ELSE ApplyOptions(ApplyOption(config, Head(opts)), Tail(opts))

\* Defaults that construct at registration.
DefaultConfig_Eager == [name |-> "", singleton |-> TRUE, lazy |-> FALSE]

DefaultConfig == [name |-> "", singleton |-> TRUE, lazy |-> TRUE]

\* AllOptions that puts the method's own options after the caller's.
AllOptions_CallerFirst(call) ==
  CASE call.method = "Bind"               -> call.opts
    [] call.method = "BindTransient"      -> call.opts \o <<WithTransient>>
    [] call.method = "BindNamed"          -> call.opts \o <<WithName(call.name)>>
    [] call.method = "BindNamedTransient" -> call.opts \o <<WithName(call.name), WithTransient>>

\* The option list a Bind method hands to Bind.
AllOptions(call) ==
  CASE call.method = "Bind"               -> call.opts
    [] call.method = "BindTransient"      -> <<WithTransient>> \o call.opts
    [] call.method = "BindNamed"          -> <<WithName(call.name)>> \o call.opts
    [] call.method = "BindNamedTransient" -> <<WithName(call.name), WithTransient>> \o call.opts

BindConfig(call) == ApplyOptions(DefaultConfig, AllOptions(call))

\* --------------------------------------------------------------- variables
VARIABLES
  bindings,   \* Container.bindings: type -> (name -> binding), a binding is an index of heap
  heap,       \* the binding objects ever stored: resolver, concrete, singleton, mutex
  lock,       \* Container.lock (sync.RWMutex)
  th,         \* per thread: position, current call, stack of resolution frames
  invoc,      \* history: every factory invocation, in order
  log,        \* history: every completed top-level call, in order
  nops,       \* history: number of top-level calls issued
  scn         \* the callers: which threads call, which register, and the calls they may issue

vars == <<bindings, heap, lock, th, invoc, log, nops, scn>>

\* The number of top-level calls the callers issue: MaxOps, and for callers
\* whose sequence of interest is longer, that many more.
OpsLimit == MaxOps + (IF "more" \in DOMAIN scn THEN scn.more ELSE 0)

EmptyMap == [x \in {} |-> 0]

Idle == [pc |-> "idle", call |-> [op |-> "none"], id |-> 0, stack |-> << >>]

\* Lookup that, asked for the default name, settles for a named binding.
Lookup_FallbackNamed(bs, ty, name) ==
  IF ty \in DOMAIN bs /\ name \in DOMAIN bs[ty] THEN bs[ty][name]
  ELSE IF ty \in DOMAIN bs /\ name = "" /\ DOMAIN bs[ty] # {}
       THEN bs[ty][CHOOSE n \in DOMAIN bs[ty] : TRUE] ELSE 0

\* Lookup that falls back on the default name of the type.
Lookup_FallbackDefault(bs, ty, name) ==
  IF ty \in DOMAIN bs /\ name \in DOMAIN bs[ty] THEN bs[ty][name]
  ELSE IF ty \in DOMAIN bs /\ "" \in DOMAIN bs[ty] THEN bs[ty][""] ELSE 0

\* c.bindings[ty][name], 0 when either map has no such key.
Lookup(bs, ty, name) ==
  IF ty \in DOMAIN bs /\ name \in DOMAIN bs[ty] THEN bs[ty][name] ELSE 0

\* m[k] = v on a Go map.
MapSet(m, k, v) == [x \in DOMAIN m \cup {k} |-> IF x = k THEN v ELSE m[x]]

\* isLazy: a struct type whose name starts with "Lazy[".
isLazy(ty) == ty \in {"Lazy[ServiceF]"}

\* ------------------------------------------------------------------ calls
BindCall(m, n, r, opts) == [op |-> "Bind", method |-> m, name |-> n, r |-> r, opts |-> opts]

ResolveCall(ty, n) == [op |-> "Resolve", type |-> ty, name |-> n, ptr |-> TRUE]

\* ResolveNamed(target, n) with a target that is not a pointer.
ResolveValueCall(ty, n) == [op |-> "Resolve", type |-> ty, name |-> n, ptr |-> FALSE]

\* Resolve(target): the caller gives no name.
ResolveOnlyCall(ty) == [op |-> "Resolve", method |-> "Resolve", type |-> ty, ptr |-> TRUE]

\* Resolve that passes the name "n" on.
Resolve_OtherName(call) == [op |-> "Resolve", type |-> call.type, name |-> "n", ptr |-> call.ptr]

\* Resolve 128-130: ResolveNamed with the empty name.
Resolve(call) == [op |-> "Resolve", type |-> call.type, name |-> "", ptr |-> call.ptr]

\* Resolve() of a handle Lazy[T]{Container: c} the caller has built.
LazyResolveCall(ty) == [op |-> "Resolve", method |-> "Lazy.Resolve", type |-> ty, ptr |-> TRUE]

\* Lazy.Resolve (lazy.go 14-18): Container.Resolve on a new variable of type T.
LazyResolve(call) == Resolve([call EXCEPT !.ptr = TRUE])

\* The ResolveNamed call that a caller's Resolve, ResolveNamed or
\* Lazy.Resolve call runs.
ResolveNamedOf(call) ==
  IF "method" \notin DOMAIN call THEN call
  ELSE IF call.method = "Lazy.Resolve" THEN LazyResolve(call) ELSE Resolve(call)

ClearCall == [op |-> "Clear"]

ResolveAllCall(ty) == [op |-> "ResolveAll", type |-> ty, ptr |-> TRUE]

\* ------------------------------------------------------------- sync.RWMutex
\* lock.w: the thread that holds rw.w (a pending or active writer), 0 if none.
\* lock.r: how many times each thread holds the read lock.
\* A Lock that does not wait for the readers to leave.
NoReaders_Ignored == TRUE

NoReaders == \A u \in Threads : lock.r[u] = 0

\* RLock that lets a reader pass a writer that is still waiting.
CanRLock_PassPending == ~lock.x

\* RLock blocks while a writer is pending or active.
CanRLock == lock.w = 0

\* ------------------------------------------------------------ completion
Ok(v, b) == [ok |-> TRUE, val |-> v, b |-> b, err |-> NoErr]

Failed(e, b) == [ok |-> FALSE, val |-> 0, b |-> b, err |-> e]

\* Release without the deferred RUnlock of ResolveNamed.
Release_KeepRead(t) ==
  CASE th[t].call.op = "Resolve"    -> lock
    [] th[t].call.op = "ResolveAll" -> lock
    [] OTHER                        -> [lock EXCEPT !.w = 0, !.x = FALSE]

\* The deferred Unlock / RUnlock of the top-level call of t; ResolveAll
\* holds nothing after its snapshot.
Release(t) ==
  CASE th[t].call.op = "Resolve"    -> [lock EXCEPT !.r[t] = @ - 1]
    [] th[t].call.op = "ResolveAll" -> lock
    [] OTHER                        -> [lock EXCEPT !.w = 0, !.x = FALSE]

\* The top-level call of thread t returns res to its caller.
Finish(t, lk, bs, hp, inv, res) ==
  /\ bindings' = bs
  /\ heap' = hp
  /\ invoc' = inv
  /\ lock' = lk
  /\ log' = Append(log, [id |-> th[t].id, t |-> t, call |-> th[t].call,
                         ok |-> res.ok, val |-> res.val, b |-> res.b,
                         err |-> res.err, ninv |-> Len(inv), at |-> nops])
  /\ th' = [th EXCEPT ![t] = Idle]
  /\ UNCHANGED <<nops, scn>>

\* Store that empties the cache of every binding registered before.
Store_Invalidate(bs, hp, r, name, isSingleton, concrete) ==
  LET ty == Resolvers[r].out[1]
      b  == Len(hp) + 1
      nb == [resolver |-> r, concrete |-> IF isSingleton THEN concrete ELSE 0,
             singleton |-> isSingleton, mutex |-> 0]
      old == [x \in DOMAIN hp |-> [hp[x] EXCEPT !.concrete = 0]]
  IN [bs |-> MapSet(bs, ty, MapSet(bs[ty], name, b)), hp |-> Append(old, nb), b |-> b]

\* Store that keeps an existing binding of the key (first registration wins).
Store_KeepFirst(bs, hp, r, name, isSingleton, concrete) ==
  LET ty == Resolvers[r].out[1]
      b  == Len(hp) + 1
      nb == [resolver |-> r, concrete |-> IF isSingleton THEN concrete ELSE 0,
             singleton |-> isSingleton, mutex |-> 0]
  IN IF name \in DOMAIN bs[ty]
     THEN [bs |-> bs, hp |-> hp, b |-> bs[ty][name]]
     ELSE [bs |-> MapSet(bs, ty, MapSet(bs[ty], name, b)), hp |-> Append(hp, nb), b |-> b]

\* Store that never keeps the instance built by an eager Bind.
Store_DropConcrete(bs, hp, r, name, isSingleton, concrete) ==
  LET ty == Resolvers[r].out[1]
      b  == Len(hp) + 1
      nb == [resolver |-> r, concrete |-> 0, singleton |-> isSingleton, mutex |-> 0]
  IN [bs |-> MapSet(bs, ty, MapSet(bs[ty], name, b)), hp |-> Append(hp, nb), b |-> b]

\* container.go 239-243: the binding is stored under (Out(0), name); a
\* transient binding drops the instance built by an eager Bind.
Store(bs, hp, r, name, isSingleton, concrete) ==
  LET ty == Resolvers[r].out[1]
      b  == Len(hp) + 1
      nb == [resolver |-> r, concrete |-> IF isSingleton THEN concrete ELSE 0,
             singleton |-> isSingleton, mutex |-> 0]
  IN [bs |-> MapSet(bs, ty, MapSet(bs[ty], name, b)), hp |-> Append(hp, nb), b |-> b]

\* The frame on top of t's stack returns the instance v.
Deliver(t, hp, inv, v) ==
  LET st    == th[t].stack
      rest  == SubSeq(st, 1, Len(st) - 1)
      call  == th[t].call
  IN IF rest = << >>
     THEN IF call.op = "Bind"
          THEN LET cfg == BindConfig(call)
                   s   == Store(bindings, hp, call.r, cfg.name, cfg.singleton, v)
               IN Finish(t, Release(t), s.bs, s.hp, inv, Ok(0, s.b))
          ELSE Finish(t, Release(t), bindings, hp, inv, Ok(v, st[1].b))
     ELSE LET p == rest[Len(rest)]
              q == [p EXCEPT !.args = Append(@, v), !.i = @ + 1]
          IN /\ th' = [th EXCEPT ![t].stack = [rest EXCEPT ![Len(rest)] = q]]
             /\ heap' = hp
             /\ invoc' = inv
             /\ UNCHANGED <<bindings, lock, log, nops, scn>>

\* Fail that leaves in the target the last instance the call had built.
Fail_TargetSet(t, inv, e) ==
  LET hp == [b \in DOMAIN heap |->
               IF heap[b].mutex = t THEN [heap[b] EXCEPT !.mutex = 0] ELSE heap[b]]
      b0 == IF th[t].call.op = "Resolve" THEN th[t].stack[1].b ELSE 0
  IN Finish(t, Release(t), bindings, hp, inv,
            [ok |-> FALSE, val |-> Len(inv), b |-> b0, err |-> e])

\* Fail for a Bind that had stored its binding before constructing it.
Fail_StoredFirst(t, inv, e) ==
  LET hp == [b \in DOMAIN heap |->
               IF heap[b].mutex = t THEN [heap[b] EXCEPT !.mutex = 0] ELSE heap[b]]
      b0 == IF th[t].call.op = "Resolve" THEN th[t].stack[1].b ELSE 0
      cfg == BindConfig(th[t].call)
      s  == Store(bindings, hp, th[t].call.r, cfg.name, cfg.singleton, 0)
  IN IF th[t].call.op = "Bind"
     THEN Finish(t, Release(t), s.bs, s.hp, inv, Failed(e, 0))
     ELSE Finish(t, Release(t), bindings, hp, inv, Failed(e, b0))

\* A failure e in the top frame: every frame below returns it unchanged
\* (container.go 75-77, 178-180, 201-203, 147-149, 234-236) and the deferred
\* Unlocks release the mutexes t holds.
Fail(t, inv, e) ==
  LET hp == [b \in DOMAIN heap |->
               IF heap[b].mutex = t THEN [heap[b] EXCEPT !.mutex = 0] ELSE heap[b]]
      b0 == IF th[t].call.op = "Resolve" THEN th[t].stack[1].b ELSE 0
  IN Finish(t, Release(t), bindings, hp, inv, Failed(e, b0))

\* ---------------------------------------------------------------- actions
CallBind(t) ==
  /\ t \in scn.binders
  /\ th[t].pc = "idle"
  /\ nops < OpsLimit
  /\ \E c \in scn.binds :
       th' = [th EXCEPT ![t] = [pc |-> "wlock", call |-> c, id |-> nops + 1, stack |-> << >>]]
  /\ nops' = nops + 1
  /\ UNCHANGED <<bindings, heap, lock, invoc, log, scn>>

CallResolve(t) ==
  /\ t \in scn.threads
  /\ th[t].pc = "idle"
  /\ nops < OpsLimit
  /\ \E c \in scn.resolves :
       th' = [th EXCEPT ![t] = [pc |-> "rlock", call |-> c, id |-> nops + 1, stack |-> << >>]]
  /\ nops' = nops + 1
  /\ UNCHANGED <<bindings, heap, lock, invoc, log, scn>>

CallClear(t) ==
  /\ t \in scn.binders
  /\ scn.clear
  /\ th[t].pc = "idle"
  /\ nops < OpsLimit
  /\ th' = [th EXCEPT ![t] = [pc |-> "wlock", call |-> ClearCall, id |-> nops + 1,
                              stack |-> << >>]]
  /\ nops' = nops + 1
  /\ UNCHANGED <<bindings, heap, lock, invoc, log, scn>>

\* c.lock.Lock(), first half: rw.w is taken, new readers are turned away.
WLock(t) ==
  /\ th[t].pc = "wlock"
  /\ lock.w = 0
  /\ lock' = [lock EXCEPT !.w = t]
  /\ th' = [th EXCEPT ![t].pc = "wwait"]
  /\ UNCHANGED <<bindings, heap, invoc, log, nops, scn>>

\* validateResolverFunction that puts no upper limit on the results.
validateResolverFunction_AnyArity(r) ==
  IF NumOut(r) = 0
  THEN Err("need exactly one or two return values", "", "")
  ELSE IF \E i \in 1..NumIn(r) : Resolvers[r].in[i] = Resolvers[r].out[1]
       THEN Err("can't depend on return type", "", "")
       ELSE NoErr

\* validateResolverFunction that compares only the first parameter.
validateResolverFunction_FirstOnly(r) ==
  IF NumOut(r) = 0 \/ NumOut(r) > 2
  THEN Err("need exactly one or two return values", "", "")
  ELSE IF NumIn(r) > 0 /\ Resolvers[r].in[1] = Resolvers[r].out[1]
       THEN Err("can't depend on return type", "", "")
       ELSE NoErr

\* validateResolverFunction 248-263: one or two results, and no parameter of
\* the type of the first result.
validateResolverFunction(r) ==
  IF NumOut(r) = 0 \/ NumOut(r) > 2
  THEN Err("need exactly one or two return values", "", "")
  ELSE IF \E i \in 1..NumIn(r) : Resolvers[r].in[i] = Resolvers[r].out[1]
       THEN Err("can't depend on return type", "", "")
       ELSE NoErr

\* BindBody that stores the binding before it validates the resolver.
BindBody_StoreFirst(t) ==
  /\ th[t].pc = "wwait"
  /\ th[t].call.op = "Bind"
  /\ NoReaders
  /\ LET call == th[t].call
         r    == call.r
         cfg  == BindConfig(call)
         bs1  == IF NumOut(r) > 0 /\ Resolvers[r].out[1] \notin DOMAIN bindings
                 THEN MapSet(bindings, Resolvers[r].out[1], EmptyMap)
                 ELSE bindings
         s    == Store(bs1, heap, r, cfg.name, cfg.singleton, 0)
     IN IF Resolvers[r].kind # "func"
        THEN Finish(t, Release(t), bindings, heap, invoc,
                    Failed(Err("container: the resolver must be a function", "", ""), 0))
        ELSE IF validateResolverFunction(r) # NoErr
        THEN IF NumOut(r) > 0
             THEN Finish(t, Release(t), s.bs, s.hp, invoc, Failed(validateResolverFunction(r), 0))
             ELSE Finish(t, Release(t), bs1, heap, invoc, Failed(validateResolverFunction(r), 0))
        ELSE IF ~cfg.lazy
        THEN /\ bindings' = bs1
             /\ lock' = [lock EXCEPT !.x = TRUE]
             /\ th' = [th EXCEPT ![t].pc = "run",
                                 ![t].stack = <<[b |-> 0, r |-> r, i |-> 1,
                                                 args |-> << >>, st |-> "args"]>>]
             /\ UNCHANGED <<heap, invoc, log, nops, scn>>
        ELSE Finish(t, Release(t), s.bs, s.hp, invoc, Ok(0, s.b))

\* BindBody that constructs at registration only what it will cache.
BindBody_LazyTransient(t) ==
  /\ th[t].pc = "wwait"
  /\ th[t].call.op = "Bind"
  /\ NoReaders
  /\ LET call == th[t].call
         r    == call.r
         cfg  == BindConfig(call)
         bs1  == IF NumOut(r) > 0 /\ Resolvers[r].out[1] \notin DOMAIN bindings
                 THEN MapSet(bindings, Resolvers[r].out[1], EmptyMap)
                 ELSE bindings
     IN IF Resolvers[r].kind # "func"
        THEN Finish(t, Release(t), bindings, heap, invoc,
                    Failed(Err("container: the resolver must be a function", "", ""), 0))
        ELSE IF validateResolverFunction(r) # NoErr
        THEN Finish(t, Release(t), bs1, heap, invoc, Failed(validateResolverFunction(r), 0))
        ELSE IF ~cfg.lazy /\ cfg.singleton
        THEN /\ bindings' = bs1
             /\ lock' = [lock EXCEPT !.x = TRUE]
             /\ th' = [th EXCEPT ![t].pc = "run",
                                 ![t].stack = <<[b |-> 0, r |-> r, i |-> 1,
                                                 args |-> << >>, st |-> "args"]>>]
             /\ UNCHANGED <<heap, invoc, log, nops, scn>>
        ELSE LET s == Store(bs1, heap, r, cfg.name, cfg.singleton, 0)
             IN Finish(t, Release(t), s.bs, s.hp, invoc, Ok(0, s.b))

\* Bind: the readers have left, then Container.bind up to the eager
\* construction, and all of it when the binding is lazy.
BindBody(t) ==
  /\ th[t].pc = "wwait"
  /\ th[t].call.op = "Bind"
  /\ NoReaders
  /\ LET call == th[t].call
         r    == call.r
         cfg  == BindConfig(call)
         bs1  == IF NumOut(r) > 0 /\ Resolvers[r].out[1] \notin DOMAIN bindings
                 THEN MapSet(bindings, Resolvers[r].out[1], EmptyMap)
                 ELSE bindings
     IN IF Resolvers[r].kind # "func"
        THEN Finish(t, Release(t), bindings, heap, invoc,
                    Failed(Err("container: the resolver must be a function", "", ""), 0))
        ELSE IF validateResolverFunction(r) # NoErr
        THEN Finish(t, Release(t), bs1, heap, invoc, Failed(validateResolverFunction(r), 0))
        ELSE IF ~cfg.lazy
        THEN /\ bindings' = bs1
             /\ lock' = [lock EXCEPT !.x = TRUE]
             /\ th' = [th EXCEPT ![t].pc = "run",
                                 ![t].stack = <<[b |-> 0, r |-> r, i |-> 1,
                                                 args |-> << >>, st |-> "args"]>>]
             /\ UNCHANGED <<heap, invoc, log, nops, scn>>
        ELSE LET s == Store(bs1, heap, r, cfg.name, cfg.singleton, 0)
             IN Finish(t, Release(t), s.bs, s.hp, invoc, Ok(0, s.b))

\* Clear that empties the cache of every binding it drops.
ClearBody_ResetCaches(t) ==
  /\ th[t].pc = "wwait"
  /\ th[t].call.op = "Clear"
  /\ NoReaders
  /\ Finish(t, Release(t), EmptyMap,
            [b \in DOMAIN heap |-> [heap[b] EXCEPT !.concrete = 0]], invoc, Ok(0, 0))

\* Clear that leaves the map in place.
ClearBody_NoOp(t) ==
  /\ th[t].pc = "wwait"
  /\ th[t].call.op = "Clear"
  /\ NoReaders
  /\ Finish(t, Release(t), bindings, heap, invoc, Ok(0, 0))

\* Clear
ClearBody(t) ==
  /\ th[t].pc = "wwait"
  /\ th[t].call.op = "Clear"
  /\ NoReaders
  /\ Finish(t, Release(t), EmptyMap, heap, invoc, Ok(0, 0))

\* ResolveLookup that gives the read lock back before binding.resolve.
ResolveLookup_Unlocked(t) ==
  /\ th[t].pc = "rlock"
  /\ CanRLock
  /\ LET call == ResolveNamedOf(th[t].call)
         b    == Lookup(bindings, call.type, call.name)
     IN IF ~call.ptr
        THEN Finish(t, lock, bindings, heap, invoc,
                    Failed(Err("target must be a pointer", "", ""), 0))
        ELSE IF b = 0
        THEN Finish(t, lock, bindings, heap, invoc,
                    Failed(Err("no binding found", call.type, call.name), 0))
        ELSE /\ th' = [th EXCEPT ![t].pc = "run",
                                 ![t].stack = <<[b |-> b, r |-> heap[b].resolver, i |-> 1,
                                                 args |-> << >>, st |-> "enter"]>>]
             /\ UNCHANGED <<bindings, heap, lock, invoc, log, nops, scn>>

\* ResolveLookup that looks the binding up before it checks the target.
ResolveLookup_LookupFirst(t) ==
  /\ th[t].pc = "rlock"
  /\ CanRLock
  /\ LET call == ResolveNamedOf(th[t].call)
         b    == Lookup(bindings, call.type, call.name)
     IN IF b = 0
        THEN IF ~call.ptr
             THEN Finish(t, lock, bindings, heap, invoc,
                         Failed(Err("target must be a pointer", "", ""), 0))
             ELSE Finish(t, lock, bindings, heap, invoc,
                         Failed(Err("no binding found", call.type, call.name), 0))
        ELSE /\ lock' = [lock EXCEPT !.r[t] = @ + 1]
             /\ th' = [th EXCEPT ![t].pc = "run",
                                 ![t].stack = <<[b |-> b, r |-> heap[b].resolver, i |-> 1,
                                                 args |-> << >>, st |-> "enter"]>>]
             /\ UNCHANGED <<bindings, heap, invoc, log, nops, scn>>

\* ResolveNamed up to binding.resolve: RLock, the pointer check, the lookup.
\* A call that returns here has taken and released the read lock in this step.
ResolveLookup(t) ==
  /\ th[t].pc = "rlock"
  /\ CanRLock
  /\ LET call == ResolveNamedOf(th[t].call)
         b    == Lookup(bindings, call.type, call.name)
     IN IF ~call.ptr
        THEN Finish(t, lock, bindings, heap, invoc,
                    Failed(Err("target must be a pointer", "", ""), 0))
        ELSE IF b = 0
        THEN Finish(t, lock, bindings, heap, invoc,
                    Failed(Err("no binding found", call.type, call.name), 0))
        ELSE /\ lock' = [lock EXCEPT !.r[t] = @ + 1]
             /\ th' = [th EXCEPT ![t].pc = "run",
                                 ![t].stack = <<[b |-> b, r |-> heap[b].resolver, i |-> 1,
                                                 args |-> << >>, st |-> "enter"]>>]
             /\ UNCHANGED <<bindings, heap, invoc, log, nops, scn>>

\* ------------------------------------------------- binding.resolve, frames
Top(t) == th[t].stack[Len(th[t].stack)]

SetTop(t, f) == [th EXCEPT ![t].stack = [@ EXCEPT ![Len(@)] = f]]

\* Enter without the wait for the binding's mutex.
Enter_NoMutex(t) ==
  /\ th[t].pc = "run"
  /\ th[t].stack # << >>
  /\ Top(t).st = "enter"
  /\ LET b == Top(t).b
     IN IF heap[b].singleton /\ heap[b].concrete # 0
        THEN Deliver(t, heap, invoc, heap[b].concrete)
        ELSE /\ heap' = [heap EXCEPT ![b].mutex = IF heap[b].singleton THEN t ELSE @]
             /\ th' = SetTop(t, [Top(t) EXCEPT !.st = "args"])
             /\ UNCHANGED <<bindings, lock, invoc, log, nops, scn>>

\* binding.resolve 62-71: a singleton takes the binding's mutex and returns
\* the cached instance if there is one; a transient goes on to callResolver.
Enter(t) ==
  /\ th[t].pc = "run"
  /\ th[t].stack # << >>
  /\ Top(t).st = "enter"
  /\ LET b == Top(t).b
     IN IF heap[b].singleton
        THEN /\ heap[b].mutex = 0
             /\ IF heap[b].concrete # 0
                THEN Deliver(t, heap, invoc, heap[b].concrete)
                ELSE /\ heap' = [heap EXCEPT ![b].mutex = t]
                     /\ th' = SetTop(t, [Top(t) EXCEPT !.st = "args"])
                     /\ UNCHANGED <<bindings, lock, invoc, log, nops, scn>>
        ELSE /\ th' = SetTop(t, [Top(t) EXCEPT !.st = "args"])
             /\ UNCHANGED <<bindings, heap, lock, invoc, log, nops, scn>>

\* ResolveArg that reports a binding already under construction on its stack.
ResolveArg_CycleCheck(t) ==
  /\ th[t].pc = "run"
  /\ th[t].stack # << >>
  /\ Top(t).st = "args"
  /\ Top(t).i <= NumIn(Top(t).r)
  /\ LET argType == Resolvers[Top(t).r].in[Top(t).i]
         bound   == Lookup(bindings, argType, "")
     IN IF bound # 0 /\ \A j \in 1..Len(th[t].stack) : th[t].stack[j].b # bound
        THEN /\ Len(th[t].stack) < MaxDepth
             /\ th' = [th EXCEPT ![t].stack =
                         Append(@, [b |-> bound, r |-> heap[bound].resolver, i |-> 1,
                                    args |-> << >>, st |-> "enter"])]
             /\ UNCHANGED <<bindings, heap, lock, invoc, log, nops, scn>>
        ELSE Fail(t, invoc, Err("failed resolving argument", argType, ""))

\* ResolveArg that passes the zero value for a parameter without a binding.
ResolveArg_SkipMissing(t) ==
  /\ th[t].pc = "run"
  /\ th[t].stack # << >>
  /\ Top(t).st = "args"
  /\ Top(t).i <= NumIn(Top(t).r)
  /\ LET argType == Resolvers[Top(t).r].in[Top(t).i]
         bound   == Lookup(bindings, argType, "")
     IN IF bound # 0
        THEN /\ Len(th[t].stack) < MaxDepth
             /\ th' = [th EXCEPT ![t].stack =
                         Append(@, [b |-> bound, r |-> heap[bound].resolver, i |-> 1,
                                    args |-> << >>, st |-> "enter"])]
             /\ UNCHANGED <<bindings, heap, lock, invoc, log, nops, scn>>
        ELSE /\ th' = SetTop(t, [Top(t) EXCEPT !.args = Append(@, 0), !.i = @ + 1])
             /\ UNCHANGED <<bindings, heap, lock, invoc, log, nops, scn>>

\* ResolveArg that takes the parameters from the last to the first.
ResolveArg_LastFirst(t) ==
  /\ th[t].pc = "run"
  /\ th[t].stack # << >>
  /\ Top(t).st = "args"
  /\ Top(t).i <= NumIn(Top(t).r)
  /\ LET argType == Resolvers[Top(t).r].in[NumIn(Top(t).r) + 1 - Top(t).i]
         bound   == Lookup(bindings, argType, "")
     IN IF bound # 0
        THEN /\ Len(th[t].stack) < MaxDepth
             /\ th' = [th EXCEPT ![t].stack =
                         Append(@, [b |-> bound, r |-> heap[bound].resolver, i |-> 1,
                                    args |-> << >>, st |-> "enter"])]
             /\ UNCHANGED <<bindings, heap, lock, invoc, log, nops, scn>>
        ELSE Fail(t, invoc, Err("failed resolving argument", argType, ""))

\* resolveArguments 197-208, one turn of the loop: the parameter's type is
\* looked up under the default name and resolved, or the call fails.  The
\* nested call needs room on the stack.
ResolveArg(t) ==
  /\ th[t].pc = "run"
  /\ th[t].stack # << >>
  /\ Top(t).st = "args"
  /\ Top(t).i <= NumIn(Top(t).r)
  /\ LET argType == Resolvers[Top(t).r].in[Top(t).i]
         bound   == Lookup(bindings, argType, "")
     IN IF bound # 0
        THEN /\ Len(th[t].stack) < MaxDepth
             /\ th' = [th EXCEPT ![t].stack =
                         Append(@, [b |-> bound, r |-> heap[bound].resolver, i |-> 1,
                                    args |-> << >>, st |-> "enter"])]
             /\ UNCHANGED <<bindings, heap, lock, invoc, log, nops, scn>>
        ELSE Fail(t, invoc, Err("failed resolving argument", argType, ""))

\* The outcomes of calling the factory r: it can report a failure only
\* through a second result of type error (callResolver 183-187).
Outcomes(r) == IF NumOut(r) = 2 /\ Resolvers[r].out[2] = "error" THEN {TRUE, FALSE} ELSE {TRUE}

\* CallFactory without line 80: the instance is returned but not cached.
CallFactory_NoCache(t) ==
  /\ th[t].pc = "run"
  /\ th[t].stack # << >>
  /\ Top(t).st = "args"
  /\ Top(t).i > NumIn(Top(t).r)
  /\ Top(t).r \notin Reentrant \cup Locating
  /\ \E ok \in Outcomes(Top(t).r) :
       LET f   == Top(t)
           inv == Append(invoc, [r |-> f.r, b |-> f.b, id |-> th[t].id, t |-> t,
                                 call |-> th[t].call, ok |-> ok, args |-> f.args])
           v   == Len(inv)
           hp  == IF f.b # 0 /\ heap[f.b].singleton
                  THEN [heap EXCEPT ![f.b].mutex = 0]
                  ELSE heap
       IN IF ok THEN Deliver(t, hp, inv, v)
          ELSE Fail(t, inv, Err("factory failed", Resolvers[f.r].out[1], ""))

\* CallFactory that caches the instance whatever the lifecycle.
CallFactory_CacheTransient(t) ==
  /\ th[t].pc = "run"
  /\ th[t].stack # << >>
  /\ Top(t).st = "args"
  /\ Top(t).i > NumIn(Top(t).r)
  /\ Top(t).r \notin Reentrant \cup Locating
  /\ \E ok \in Outcomes(Top(t).r) :
       LET f   == Top(t)
           inv == Append(invoc, [r |-> f.r, b |-> f.b, id |-> th[t].id, t |-> t,
                                 call |-> th[t].call, ok |-> ok, args |-> f.args])
           v   == Len(inv)
           hp  == IF f.b # 0
                  THEN [heap EXCEPT ![f.b].concrete = v, ![f.b].mutex = 0]
                  ELSE heap
       IN IF ok THEN Deliver(t, hp, inv, v)
          ELSE Fail(t, inv, Err("factory failed", Resolvers[f.r].out[1], ""))

\* CallFactory that caches the first result before it looks at the second.
CallFactory_CacheOnError(t) ==
  /\ th[t].pc = "run"
  /\ th[t].stack # << >>
  /\ Top(t).st = "args"
  /\ Top(t).i > NumIn(Top(t).r)
  /\ Top(t).r \notin Reentrant \cup Locating
  /\ \E ok \in Outcomes(Top(t).r) :
       LET f   == Top(t)
           inv == Append(invoc, [r |-> f.r, b |-> f.b, id |-> th[t].id, t |-> t,
                                 call |-> th[t].call, ok |-> ok, args |-> f.args])
           v   == Len(inv)
           hp  == IF f.b # 0 /\ heap[f.b].singleton
                  THEN [heap EXCEPT ![f.b].concrete = v, ![f.b].mutex = 0]
                  ELSE heap
           hpf == [b \in DOMAIN hp |->
                     IF hp[b].mutex = t THEN [hp[b] EXCEPT !.mutex = 0] ELSE hp[b]]
       IN IF ok THEN Deliver(t, hp, inv, v)
          ELSE Finish(t, Release(t), bindings, hpf, inv,
                      Failed(Err("factory failed", Resolvers[f.r].out[1], ""), 0))

\* callResolver 182-188 and binding.resolve 74-85: the factory is called with
\* the resolved arguments; a singleton caches the instance and unlocks.
CallFactory(t) ==
  /\ th[t].pc = "run"
  /\ th[t].stack # << >>
  /\ Top(t).st = "args"
  /\ Top(t).i > NumIn(Top(t).r)
  /\ Top(t).r \notin Reentrant \cup Locating
  /\ \E ok \in Outcomes(Top(t).r) :
       LET f   == Top(t)
           inv == Append(invoc, [r |-> f.r, b |-> f.b, id |-> th[t].id, t |-> t,
                                 call |-> th[t].call, ok |-> ok, args |-> f.args])
           v   == Len(inv)
           hp  == IF f.b # 0 /\ heap[f.b].singleton
                  THEN [heap EXCEPT ![f.b].concrete = v, ![f.b].mutex = 0]
                  ELSE heap
       IN IF ok THEN Deliver(t, hp, inv, v)
          ELSE Fail(t, inv, Err("factory failed", Resolvers[f.r].out[1], ""))

\* The nested call of resolveArguments 200 finds no room on the goroutine's
\* stack: the runtime ends the program, the call never returns.
StackOverflow(t) ==
  /\ th[t].pc = "run"
  /\ th[t].stack # << >>
  /\ Top(t).st = "args"
  /\ Top(t).i <= NumIn(Top(t).r)
  /\ Lookup(bindings, Resolvers[Top(t).r].in[Top(t).i], "") # 0
  /\ Len(th[t].stack) >= MaxDepth
  /\ th' = [th EXCEPT ![t].pc = "fatal"]
  /\ UNCHANGED <<bindings, heap, lock, invoc, log, nops, scn>>

\* callResolver 182 for a factory of Reentrant: the factory body runs up to
\* its call of c.Bind.
FactoryBind(t) ==
  /\ th[t].pc = "run"
  /\ th[t].stack # << >>
  /\ Top(t).st = "args"
  /\ Top(t).i > NumIn(Top(t).r)
  /\ Top(t).r \in Reentrant
  /\ th' = [th EXCEPT ![t].pc = "fwlock"]
  /\ UNCHANGED <<bindings, heap, lock, invoc, log, nops, scn>>

\* c.lock.Lock() of the Bind called by the factory (108), first half: rw.w
\* is taken.  The second half waits until no reader is left; the calling
\* thread is one (C26), so the rest of that Bind is never run.
FactoryWLock(t) ==
  /\ th[t].pc = "fwlock"
  /\ lock.w = 0
  /\ lock' = [lock EXCEPT !.w = t]
  /\ th' = [th EXCEPT ![t].pc = "fwwait"]
  /\ UNCHANGED <<bindings, heap, invoc, log, nops, scn>>

\* callResolver 182 for a factory of Locating: the factory body runs up to
\* its call of c.Resolve.
FactoryResolve(t) ==
  /\ th[t].pc = "run"
  /\ th[t].stack # << >>
  /\ Top(t).st = "args"
  /\ Top(t).i > NumIn(Top(t).r)
  /\ Top(t).r \in Locating
  /\ th' = [th EXCEPT ![t].pc = "frlock"]
  /\ UNCHANGED <<bindings, heap, lock, invoc, log, nops, scn>>

\* ResolveNamed 135-145 called by the factory: RLock, which waits while a
\* writer holds or waits for the lock, then the lookup.  Without a binding
\* the call returns its error to the factory, which returns it (153, 75-77).
FactoryRLock(t) ==
  /\ th[t].pc = "frlock"
  /\ CanRLock
  /\ LET f  == Top(t)
         ty == Locates[f.r]
         b  == Lookup(bindings, ty, "")
     IN IF b = 0
        THEN Fail(t, Append(invoc, [r |-> f.r, b |-> f.b, id |-> th[t].id, t |-> t,
                                    call |-> th[t].call, ok |-> FALSE, args |-> f.args]),
                  Err("no binding found", ty, ""))
        ELSE /\ lock' = [lock EXCEPT !.r[t] = @ + 1]
             /\ th' = [th EXCEPT ![t].pc = "run",
                                 ![t].stack = Append(SetTop(t, [f EXCEPT !.st = "body"])[t].stack,
                                                     [b |-> b, r |-> heap[b].resolver, i |-> 1,
                                                      args |-> << >>, st |-> "enter"])]
             /\ UNCHANGED <<bindings, heap, invoc, log, nops, scn>>

\* ResolveNamed 150-151 and 136 called by the factory: the instance is in
\* the factory's variable and the deferred RUnlock runs.
FactoryRUnlock(t) ==
  /\ th[t].pc = "run"
  /\ th[t].stack # << >>
  /\ Top(t).st = "body"
  /\ lock' = [lock EXCEPT !.r[t] = @ - 1]
  /\ th' = SetTop(t, [Top(t) EXCEPT !.st = "ret"])
  /\ UNCHANGED <<bindings, heap, invoc, log, nops, scn>>

\* The factory of Locating returns its instance (callResolver 182-188,
\* binding.resolve 79-81).
FactoryReturn(t) ==
  /\ th[t].pc = "run"
  /\ th[t].stack # << >>
  /\ Top(t).st = "ret"
  /\ LET f   == Top(t)
         inv == Append(invoc, [r |-> f.r, b |-> f.b, id |-> th[t].id, t |-> t,
                               call |-> th[t].call, ok |-> TRUE, args |-> f.args])
         v   == Len(inv)
         hp  == IF f.b # 0 /\ heap[f.b].singleton
                THEN [heap EXCEPT ![f.b].concrete = v, ![f.b].mutex = 0]
                ELSE heap
     IN Deliver(t, hp, inv, v)

\* ------------------------------------------------------------- ResolveAll
\* Container.ResolveAll is called by the package-level ResolveAll and by
\* resolve_all_test.go; its body is written from section 4.6 of the
\* specification: the bindings of every name of the type are snapshotted under
\* the read lock, then each is resolved by binding.resolve.
lookupAll(bs, ty) == IF ty \in DOMAIN bs THEN {bs[ty][n] : n \in DOMAIN bs[ty]} ELSE {}

CallResolveAll(t) ==
  /\ t \in scn.threads
  /\ th[t].pc = "idle"
  /\ nops < OpsLimit
  /\ \E c \in scn.alls :
       th' = [th EXCEPT ![t] = [pc |-> "rall", call |-> c, id |-> nops + 1, stack |-> << >>]]
  /\ nops' = nops + 1
  /\ UNCHANGED <<bindings, heap, lock, invoc, log, scn>>

\* The snapshot: the read lock is taken and released within this step.
ResolveAllLookup(t) ==
  /\ th[t].pc = "rall"
  /\ CanRLock
  /\ th' = [th EXCEPT ![t].pc = "run",
                      ![t].stack = <<[b |-> 0, r |-> "", i |-> 1, args |-> << >>, st |-> "all",
                                      todo |-> lookupAll(bindings, th[t].call.type)]>>]
  /\ UNCHANGED <<bindings, heap, lock, invoc, log, nops, scn>>

\* The next binding of the snapshot is resolved, in no particular order; its
\* instance is appended to the result.  After the last one the call returns.
ResolveAllStep(t) ==
  /\ th[t].pc = "run"
  /\ th[t].stack # << >>
  /\ Top(t).st = "all"
  /\ IF Top(t).todo = {}
     THEN Finish(t, lock, bindings, heap, invoc, Ok(Top(t).args, 0))
     ELSE /\ \E b \in Top(t).todo :
               th' = [th EXCEPT ![t].stack =
                        <<[Top(t) EXCEPT !.todo = @ \ {b}],
                          [b |-> b, r |-> heap[b].resolver, i |-> 1, args |-> << >>,
                           st |-> "enter"]>>]
          /\ UNCHANGED <<bindings, heap, lock, invoc, log, nops, scn>>

\* ------------------------------------------------------------ the callers
NoOpts == << >>

\* One caller, a leaf type under two names and every lifecycle.
ScnLeaf ==
  [threads  |-> {1},
   binders  |-> {1},
   binds    |-> {BindCall("Bind", "", r, o) :
                   r \in {"newDatabase", "newDatabaseErr"},
                   o \in {NoOpts, <<WithTransient>>, <<WithEager>>, <<WithName("n")>>}},
   resolves |-> {ResolveCall("Database", ""), ResolveCall("Database", "n")},
   clear    |-> TRUE]

\* One caller, a service with a dependency.
ScnDep ==
  [threads  |-> {1},
   binders  |-> {1},
   binds    |-> {BindCall("Bind", "", "newDatabaseErr", NoOpts),
                 BindCall("Bind", "", "newUserService", NoOpts),
                 BindCall("Bind", "", "newUserService", <<WithEager>>),
                 BindCall("Bind", "", "selfFirst", NoOpts),
                 BindCall("Bind", "", "selfLast", <<WithEager>>)},
   resolves |-> {ResolveCall("UserService", ""), ResolveCall("Database", "")},
   clear    |-> FALSE]

\* One caller, the two services of lazy_test.go.
ScnLazy ==
  [threads  |-> {1},
   binders  |-> {1},
   binds    |-> {BindCall("Bind", "", "NewServiceE", NoOpts),
                 BindCall("Bind", "", "NewServiceF", NoOpts)},
   resolves |-> {ResolveCall("*ServiceE", ""), ResolveCall("*ServiceF", "")},
   clear    |-> FALSE]

\* Two callers resolve on one container, the first of them also registers.
ScnConc ==
  [threads  |-> {1, 2},
   binders  |-> {1},
   binds    |-> {BindCall("Bind", "", "newDatabaseErr", NoOpts),
                 BindCall("Bind", "", "newUserService", NoOpts)},
   resolves |-> {ResolveCall("UserService", ""), ResolveCall("Database", "")},
   clear    |-> TRUE]

\* Two callers; the first registers with WithEager, on types the second resolves.
ScnEager ==
  [threads  |-> {1, 2},
   binders  |-> {1},
   binds    |-> {BindCall("Bind", "", "newLogger", NoOpts),
                 BindCall("Bind", "", "newDatabase", <<WithEager>>),
                 BindCall("Bind", "", "newUserService", <<WithEager>>)},
   resolves |-> {ResolveCall("Logger", ""), ResolveCall("UserService", "")},
   clear    |-> TRUE]

\* One caller, resolvers that Bind rejects next to one it accepts.
ScnReject ==
  [threads  |-> {1},
   binders  |-> {1},
   binds    |-> {BindCall("Bind", "", r, NoOpts) :
                   r \in {"newDatabase", "newDatabaseErr", "selfDatabase", "notAFunction",
                          "noReturn", "threeReturns"}},
   resolves |-> {ResolveCall("Database", "")},
   alls     |-> {},
   clear    |-> TRUE]

\* One caller, one type under two names, resolved one by one and all at once.
ScnAll ==
  [threads  |-> {1},
   binders  |-> {1},
   binds    |-> {BindCall("Bind", "", "newDatabase", o) :
                   o \in {NoOpts, <<WithTransient>>, <<WithName("n")>>,
                          <<WithName("n"), WithTransient>>}},
   resolves |-> {ResolveCall("Database", ""), ResolveCall("Database", "n")},
   alls     |-> {ResolveAllCall("Database")},
   clear    |-> FALSE]

\* One caller, two services whose factories take each other.
ScnCycle ==
  [threads  |-> {1},
   binders  |-> {1},
   binds    |-> {BindCall("Bind", "", r, o) :
                   r \in {"newCycleA", "newCycleB"}, o \in {NoOpts, <<WithTransient>>}},
   resolves |-> {ResolveCall("CycleA", ""), ResolveCall("CycleB", "")},
   alls     |-> {},
   clear    |-> FALSE]

\* One caller, a service with two parameters of which the second is never bound.
ScnPartial ==
  [threads  |-> {1},
   binders  |-> {1},
   binds    |-> {BindCall("Bind", "", "newDatabase", NoOpts),
                 BindCall("Bind", "", "newDatabase", <<WithTransient>>),
                 BindCall("Bind", "", "newLoggedUserService", NoOpts)},
   resolves |-> {ResolveCall("UserService", "")},
   clear    |-> FALSE]

\* One caller, targets that are pointers and targets that are not, with and
\* without a name.
ScnTarget ==
  [threads  |-> {1},
   binders  |-> {1},
   binds    |-> {BindCall("Bind", "", "newDatabase", NoOpts),
                 BindCall("Bind", "", "newDatabase", <<WithName("n")>>)},
   resolves |-> {ResolveCall("Database", ""), ResolveCall("Database", "n"),
                 ResolveValueCall("Database", ""), ResolveOnlyCall("Database")},
   clear    |-> TRUE]

\* One caller with a handle Lazy[Database] on the container.
ScnHandle ==
  [threads  |-> {1},
   binders  |-> {1},
   binds    |-> {BindCall("Bind", "", "newDatabase", NoOpts),
                 BindCall("Bind", "", "newDatabase", <<WithTransient>>)},
   resolves |-> {LazyResolveCall("Database")},
   clear    |-> TRUE]

\* One caller, a factory that registers on the container from its body.
ScnReenter ==
  [threads  |-> {1},
   binders  |-> {1},
   binds    |-> {BindCall("Bind", "", "newRegistrar", NoOpts),
                 BindCall("Bind", "", "newRegistrar", <<WithEager>>)},
   resolves |-> {ResolveCall("Registrar", "")},
   clear    |-> FALSE]

\* ------------------------------------------------------- the specification
\* New(): an empty registry, nobody holds the lock.
InitWith(scenarios) ==
  /\ scn \in scenarios
  /\ bindings = EmptyMap
  /\ heap = << >>
  /\ lock = [w |-> 0, x |-> FALSE, r |-> [u \in Threads |-> 0]]
  /\ th = [u \in Threads |-> Idle]
  /\ invoc = << >>
  /\ log = << >>
  /\ nops = 0

Init == InitWith({ScnLeaf, ScnDep, ScnLazy})

InitConc == InitWith({ScnConc})

Next ==
  \E t \in Threads :
    \/ CallBind(t)
    \/ CallResolve(t)
    \/ CallClear(t)
    \/ WLock(t)
    \/ BindBody(t)
    \/ ClearBody(t)
    \/ ResolveLookup(t)
    \/ Enter(t)
    \/ ResolveArg(t)
    \/ CallFactory(t)

Spec == Init /\ [][Next]_vars

SpecConc == InitConc /\ [][Next]_vars

InitEager == InitWith({ScnEager})

SpecEager == InitEager /\ [][Next]_vars

\* The calls of Next, ResolveAll, and a stack that can run out.
InitMore == InitWith({ScnReject, ScnAll, ScnCycle})

NextMore ==
  \E t \in Threads :
    \/ CallBind(t)
    \/ CallResolve(t)
    \/ CallClear(t)
    \/ WLock(t)
    \/ BindBody(t)
    \/ ClearBody(t)
    \/ ResolveLookup(t)
    \/ Enter(t)
    \/ ResolveArg(t)
    \/ CallFactory(t)
    \/ StackOverflow(t)
    \/ CallResolveAll(t)
    \/ ResolveAllLookup(t)
    \/ ResolveAllStep(t)

SpecMore == InitMore /\ [][NextMore]_vars

\* More callers of the calls of Next, and factories that call Bind.
\* One caller, a service whose parameter type is bound under a name and,
\* or, under the default name.
ScnNamedDep ==
  [threads  |-> {1},
   binders  |-> {1},
   binds    |-> {BindCall("Bind", "", "newDatabase", NoOpts),
                 BindCall("Bind", "", "newDatabase", <<WithName("n")>>),
                 BindCall("Bind", "", "newUserService", NoOpts)},
   resolves |-> {ResolveCall("UserService", "")},
   clear    |-> FALSE]

\* One caller, a transient binding that is constructed at registration.
ScnFresh ==
  [threads  |-> {1},
   binders  |-> {1},
   binds    |-> {BindCall("BindTransient", "", "newDatabase", <<WithEager>>),
                 BindCall("Bind", "", "newDatabaseErr", <<WithTransient, WithEager>>)},
   resolves |-> {ResolveCall("Database", "")},
   clear    |-> FALSE]

\* One caller, a service with two parameters of which the first can fail.
ScnOrder ==
  [threads  |-> {1},
   binders  |-> {1},
   binds    |-> {BindCall("Bind", "", "newDatabaseErr", NoOpts),
                 BindCall("Bind", "", "newLogger", NoOpts),
                 BindCall("Bind", "", "newLoggedUserService", NoOpts)},
   resolves |-> {ResolveCall("UserService", "")},
   clear    |-> FALSE]

\* One caller who gives a convenience method the option opposite to the one
\* the method implies, and who repeats options of one kind.
ScnOptions ==
  [threads  |-> {1},
   binders  |-> {1},
   binds    |-> {BindCall("BindTransient", "", "newDatabase", <<WithSingleton>>),
                 BindCall("BindNamed", "n", "newDatabase", <<WithName("m")>>),
                 BindCall("BindNamedTransient", "n", "newDatabase",
                          <<WithEager, WithSingleton, WithLazy, WithTransient>>)},
   resolves |-> {ResolveCall("Database", ""), ResolveCall("Database", "m")},
   clear    |-> FALSE]

InitCalls ==
  InitWith({ScnPartial, ScnTarget, ScnHandle, ScnReenter, ScnNamedDep, ScnFresh, ScnOrder,
            ScnOptions})

NextCalls ==
  \E t \in Threads :
    \/ CallBind(t)
    \/ CallResolve(t)
    \/ CallClear(t)
    \/ WLock(t)
    \/ BindBody(t)
    \/ ClearBody(t)
    \/ ResolveLookup(t)
    \/ Enter(t)
    \/ ResolveArg(t)
    \/ CallFactory(t)
    \/ FactoryBind(t)
    \/ FactoryWLock(t)

SpecCalls == InitCalls /\ [][NextCalls]_vars

\* One caller who registers, resolves, clears and starts again.
ScnRebuild ==
  [threads  |-> {1},
   binders  |-> {1},
   binds    |-> {BindCall("Bind", "", "newDatabase", NoOpts)},
   resolves |-> {ResolveCall("Database", "")},
   clear    |-> TRUE,
   more     |-> 1]

\* One caller who registers a dependency again after its dependent was built.
ScnRebind ==
  [threads  |-> {1},
   binders  |-> {1},
   binds    |-> {BindCall("Bind", "", "newDatabase", NoOpts),
                 BindCall("Bind", "", "newUserService", NoOpts)},
   resolves |-> {ResolveCall("UserService", ""), ResolveCall("Database", "")},
   clear    |-> FALSE,
   more     |-> 2]

\* Callers with longer sequences of calls.
InitLong == InitWith({ScnRebuild, ScnRebind})

SpecLong == InitLong /\ [][Next]_vars

\* Two callers who resolve a service with a dependency while the first of
\* them registers and clears.
ScnLive ==
  [threads  |-> {1, 2},
   binders  |-> {1},
   binds    |-> {BindCall("Bind", "", "newDatabase", NoOpts),
                 BindCall("Bind", "", "newUserService", NoOpts)},
   resolves |-> {ResolveCall("UserService", "")},
   clear    |-> TRUE]

InitLive == InitWith({ScnLive})

\* The steps of thread t inside a call it has issued.
Run(t) ==
  \/ WLock(t)
  \/ BindBody(t)
  \/ ClearBody(t)
  \/ ResolveLookup(t)
  \/ Enter(t)
  \/ ResolveArg(t)
  \/ CallFactory(t)

\* The Go scheduler runs every goroutine that can take a step.
SpecLive == InitLive /\ [][Next]_vars /\ \A t \in Threads : WF_vars(Run(t))

\* A caller who resolves a service whose factory resolves from the
\* container, and a second caller who registers and clears.
ScnLocate ==
  [threads  |-> {1},
   binders  |-> {2},
   binds    |-> {BindCall("Bind", "", "newDatabase", NoOpts),
                 BindCall("Bind", "", "newLocator", NoOpts),
                 BindCall("Bind", "", "newLocator", <<WithEager>>)},
   resolves |-> {ResolveCall("Locator", "")},
   clear    |-> TRUE]

InitLocate == InitWith({ScnLocate})

\* The calls of Next on factories without parameters, and factories that
\* call Resolve.
NextLocate ==
  \E t \in Threads :
    \/ CallBind(t)
    \/ CallResolve(t)
    \/ CallClear(t)
    \/ WLock(t)
    \/ BindBody(t)
    \/ ClearBody(t)
    \/ ResolveLookup(t)
    \/ Enter(t)
    \/ CallFactory(t)
    \/ FactoryResolve(t)
    \/ FactoryRLock(t)
    \/ FactoryRUnlock(t)
    \/ FactoryReturn(t)

SpecLocate == InitLocate /\ [][NextLocate]_vars

\* ------------------------------------------------- vocabulary of the claims
IsBind(e) == e.call.op = "Bind"

IsResolve(e) == e.call.op = "Resolve"

IsClear(e) == e.call.op = "Clear"

\* The (type, name) a Bind call registers and a Resolve call asks for.
BindKey(call) == <<Resolvers[call.r].out[1], BindConfig(call).name>>

ResolveKey(call) == <<call.type, call.name>>

\* The lifecycle and timing a Bind call asks for, read off its option list:
\* the last option of a kind decides, the defaults are singleton and lazy.
AsksTransient(call) ==
  \E k \in DOMAIN AllOptions(call) :
    /\ AllOptions(call)[k] = WithTransient
    /\ \A m \in DOMAIN AllOptions(call) : m > k => AllOptions(call)[m] # WithSingleton

AsksEager(call) ==
  \E k \in DOMAIN AllOptions(call) :
    /\ AllOptions(call)[k] = WithEager
    /\ \A m \in DOMAIN AllOptions(call) : m > k => AllOptions(call)[m] # WithLazy

\* The invocations made for binding b, and those that returned an instance.
InvocOf(b) == {n \in DOMAIN invoc : invoc[n].b = b}

BuiltOf(b) == {n \in InvocOf(b) : invoc[n].ok}

\* The invocations made while the top-level call id was running.
InvocDuring(id) == {n \in DOMAIN invoc : invoc[n].id = id}

\* Call x had returned before call y was issued.
Precedes(x, y) == \E k \in DOMAIN log : log[k].id = x /\ y > log[k].at

Overlap(x, y) == x # y /\ ~Precedes(x, y) /\ ~Precedes(y, x)

\* Between positions i and k of the log no Bind and no Clear completed.
Quiet(i, k) == \A m \in DOMAIN log : (i < m /\ m < k) => IsResolve(log[m])

SelfDependent(r) == \E i \in DOMAIN Resolvers[r].in : Resolvers[r].in[i] = Resolvers[r].out[1]

\* ------------------------------------------------------------------ claims
\* C1, as stated: whatever the interleaving, overlapping calls never execute
\* the factory of one singleton binding more than once, and overlapping
\* Resolve calls served by it all receive the same instance.
C1_Original ==
  \A b \in DOMAIN heap :
    heap[b].singleton =>
      /\ \A m, n \in InvocOf(b) : m # n => ~Overlap(invoc[m].id, invoc[n].id)
      /\ \A i, j \in DOMAIN log :
           (IsResolve(log[i]) /\ IsResolve(log[j]) /\ log[i].b = b /\ log[j].b = b
            /\ Overlap(log[i].id, log[j].id))
           => (log[i].ok /\ log[j].ok /\ log[i].val = log[j].val)

\* C1, amended: under every interleaving the factory of a singleton binding
\* returns an instance at most once, and every caller of that binding that
\* receives an instance receives that same, cached one.
C1_SingletonOnce ==
  \A b \in DOMAIN heap :
    heap[b].singleton =>
      /\ Cardinality(BuiltOf(b)) <= 1
      /\ \A i \in DOMAIN log :
           (IsResolve(log[i]) /\ log[i].b = b /\ log[i].ok)
           => (log[i].val = heap[b].concrete /\ log[i].val \in BuiltOf(b))

\* Two overlapping Resolve calls of one singleton binding have both returned
\* an instance.
C1_Witness ==
  \E i, j \in DOMAIN log :
    /\ IsResolve(log[i]) /\ IsResolve(log[j])
    /\ Overlap(log[i].id, log[j].id)
    /\ log[i].b = log[j].b /\ log[i].b # 0
    /\ heap[log[i].b].singleton
    /\ log[i].ok /\ log[j].ok
    /\ InvocDuring(log[i].id) \cap BuiltOf(log[i].b) # {}

\* The Bind call that stored binding b.
BoundBy(b) == {i \in DOMAIN log : IsBind(log[i]) /\ log[i].ok /\ log[i].b = b}

C3_TransientFresh ==
  \A i \in DOMAIN log :
    (/\ IsResolve(log[i]) /\ log[i].ok
     /\ \E m \in BoundBy(log[i].b) : AsksTransient(log[m].call))
    => /\ Cardinality(InvocDuring(log[i].id) \cap InvocOf(log[i].b)) = 1
       /\ log[i].val \in InvocDuring(log[i].id) \cap InvocOf(log[i].b)
       /\ heap[log[i].b].concrete = 0
       /\ \A j \in DOMAIN log :
            (j # i /\ IsResolve(log[j]) /\ log[j].ok
             /\ ResolveKey(log[j].call) = ResolveKey(log[i].call))
            => log[j].val # log[i].val

\* Two successful resolutions of a key served by one transient binding.
C3_Witness ==
  \E i, j \in DOMAIN log :
    /\ i < j
    /\ IsResolve(log[i]) /\ IsResolve(log[j])
    /\ log[i].ok /\ log[j].ok
    /\ log[i].b = log[j].b
    /\ \E m \in BoundBy(log[i].b) : AsksTransient(log[m].call)

\* The instances built by the Bind call at position i of the log or for the
\* binding it stored.
InstancesOf(i) ==
  InvocOf(log[i].b) \cup {n \in InvocDuring(log[i].id) : invoc[n].b = 0}

\* C4: after two successful Bind calls for one key, the key maps to the
\* binding of the later one, the factory of the earlier binding runs in no
\* call that returns after the later Bind, and no later resolution of the key
\* is served by the earlier binding or returns one of its instances.
C4_RebindWins ==
  \A i, j \in DOMAIN log :
    (/\ i < j
     /\ IsBind(log[i]) /\ log[i].ok /\ IsBind(log[j]) /\ log[j].ok
     /\ BindKey(log[i].call) = BindKey(log[j].call))
    => /\ log[i].b # log[j].b
       /\ \A n \in InvocOf(log[i].b) : \E m \in DOMAIN log : m < j /\ log[m].id = invoc[n].id
       /\ \A k \in DOMAIN log :
            (k > j /\ IsResolve(log[k]) /\ ResolveKey(log[k].call) = BindKey(log[j].call))
            => /\ log[k].b # log[i].b
               /\ log[k].ok => log[k].val \notin InstancesOf(i)
               /\ Quiet(j, k) => log[k].b = log[j].b
       /\ (\A m \in DOMAIN log : m > j => IsResolve(log[m]))
          => Lookup(bindings, BindKey(log[j].call)[1], BindKey(log[j].call)[2]) = log[j].b

\* A key is bound, resolved, bound again with another factory and resolved.
C4_Witness ==
  \E i, j, k \in DOMAIN log :
    /\ i < j /\ j < k
    /\ IsBind(log[i]) /\ log[i].ok /\ IsBind(log[j]) /\ log[j].ok
    /\ BindKey(log[i].call) = BindKey(log[j].call)
    /\ log[i].call.r # log[j].call.r
    /\ BuiltOf(log[i].b) # {}
    /\ IsResolve(log[k]) /\ log[k].ok
    /\ ResolveKey(log[k].call) = BindKey(log[j].call)

\* NewServiceE and NewServiceF are both registered before position k.
BothBound(k) ==
  /\ \E i \in DOMAIN log : i < k /\ IsBind(log[i]) /\ log[i].ok /\ log[i].call.r = "NewServiceE"
  /\ \E i \in DOMAIN log : i < k /\ IsBind(log[i]) /\ log[i].ok /\ log[i].call.r = "NewServiceF"

\* C5, as stated: with A bound by a factory taking Lazy[B] and B bound by a
\* factory taking A, resolving A succeeds.
C5_Claim ==
  \A k \in DOMAIN log :
    (IsResolve(log[k]) /\ log[k].call.type = "*ServiceE" /\ BothBound(k)) => log[k].ok

\* C6, as stated: in the E/F scenario no factory runs at Bind time and the
\* first resolution of *ServiceE invokes ServiceE's factory and nothing else.
C6_Claim ==
  \A k \in DOMAIN log :
    (/\ IsResolve(log[k]) /\ log[k].call.type = "*ServiceE" /\ BothBound(k)
     /\ \A m \in DOMAIN log : m < k => IsBind(log[m]))
    => /\ \A m \in DOMAIN log : m < k => log[m].ninv = 0
       /\ log[k].ninv = 1
       /\ \A n \in InvocDuring(log[k].id) : invoc[n].r = "NewServiceE"

\* The instance an eager Bind builds for the binding it registers (it is
\* built outside binding.resolve, before the binding exists).
OwnConstruction(id) == {n \in InvocDuring(id) : invoc[n].b = 0}

\* C7: a Bind that asks for lazy timing (the default) invokes no factory, a
\* factory is invoked outside a resolution of its binding only by the eager
\* Bind that registers it, and a lazily registered binding's factory runs
\* only in a resolution of its key: a top-level one of exactly (type, name),
\* or a nested one, which uses the default name.
C7_LazyNotAtBind ==
  /\ \A i \in DOMAIN log :
       (IsBind(log[i]) /\ ~AsksEager(log[i].call)) => InvocDuring(log[i].id) = {}
  /\ \A t \in Threads :
       (th[t].call.op = "Bind" /\ ~AsksEager(th[t].call)) => InvocDuring(th[t].id) = {}
  /\ \A n \in DOMAIN invoc :
       invoc[n].b = 0
       => (invoc[n].call.op = "Bind" /\ AsksEager(invoc[n].call) /\ invoc[n].call.r = invoc[n].r)
  /\ \A n \in DOMAIN invoc : \A m \in BoundBy(invoc[n].b) :
       ~AsksEager(log[m].call)
       => /\ log[m].id < invoc[n].id
          /\ \/ /\ invoc[n].call.op = "Resolve"
                /\ ResolveKey(invoc[n].call) = BindKey(log[m].call)
             \/ BindKey(log[m].call)[2] = ""

\* A binding registered with default timing is constructed by its first
\* resolution, nothing having been invoked up to then.
C7_Witness ==
  \E i, k \in DOMAIN log :
    /\ i < k
    /\ IsBind(log[i]) /\ log[i].ok /\ ~AsksEager(log[i].call)
    /\ IsResolve(log[k]) /\ log[k].ok /\ log[k].b = log[i].b
    /\ log[i].ninv = 0
    /\ InvocDuring(log[k].id) \cap InvocOf(log[i].b) # {}

\* C8: a successful Bind with eager timing has invoked its factory exactly
\* once before returning; if it is a singleton, the binding's factory is
\* never invoked afterwards and every resolution served by the binding
\* returns the instance built during Bind.
C8_EagerOnce ==
  \A i \in DOMAIN log :
    (IsBind(log[i]) /\ log[i].ok /\ AsksEager(log[i].call))
    => /\ Cardinality(OwnConstruction(log[i].id)) = 1
       /\ \A n \in OwnConstruction(log[i].id) : invoc[n].ok /\ invoc[n].r = log[i].call.r
       /\ ~AsksTransient(log[i].call)
          => /\ InvocOf(log[i].b) = {}
             /\ heap[log[i].b].concrete \in OwnConstruction(log[i].id)
             /\ \A k \in DOMAIN log :
                  (IsResolve(log[k]) /\ log[k].b = log[i].b)
                  => (log[k].ok /\ log[k].val \in OwnConstruction(log[i].id))

\* An eager singleton is registered and resolved twice.
C8_Witness ==
  \E i, k, m \in DOMAIN log :
    /\ i < k /\ k < m
    /\ IsBind(log[i]) /\ log[i].ok /\ AsksEager(log[i].call) /\ ~AsksTransient(log[i].call)
    /\ IsResolve(log[k]) /\ log[k].b = log[i].b
    /\ IsResolve(log[m]) /\ log[m].b = log[i].b

\* The key was registered by a Bind that completed before position k.
BoundBefore(key, k) ==
  \E m \in DOMAIN log : m < k /\ IsBind(log[m]) /\ log[m].ok /\ BindKey(log[m].call) = key

\* C9: an eager Bind whose construction fails (the factory reports a failure
\* or a parameter cannot be resolved) returns that error and stores nothing:
\* every binding in the registry was stored by a Bind that succeeded, and a
\* key never registered successfully keeps resolving NotFound.
C9_EagerFailureStoresNothing ==
  /\ \A i \in DOMAIN log :
       (IsBind(log[i]) /\ AsksEager(log[i].call) /\ ~SelfDependent(log[i].call.r))
       => /\ log[i].ok <=> (\E n \in OwnConstruction(log[i].id) : invoc[n].ok)
          /\ (\E n \in OwnConstruction(log[i].id) : ~invoc[n].ok)
             => log[i].err.kind = "factory failed"
          /\ ~log[i].ok
             => /\ log[i].b = 0
                /\ log[i].err.kind \in {"factory failed", "failed resolving argument"}
                /\ \A k \in DOMAIN log :
                     (/\ k > i /\ IsResolve(log[k])
                      /\ ResolveKey(log[k].call) = BindKey(log[i].call)
                      /\ ~BoundBefore(BindKey(log[i].call), k))
                     => (~log[k].ok /\ log[k].err.kind = "no binding found")
  /\ \A ty \in DOMAIN bindings : \A nm \in DOMAIN bindings[ty] :
       \E m \in BoundBy(bindings[ty][nm]) : BindKey(log[m].call) = <<ty, nm>>
  /\ \A b \in DOMAIN heap : BoundBy(b) # {}

\* An eager Bind failed in its factory, another on a missing or failing
\* parameter, and the key of one of them was then resolved.
C9_Witness ==
  \E i, k \in DOMAIN log :
    /\ i < k
    /\ IsBind(log[i]) /\ AsksEager(log[i].call) /\ ~log[i].ok
    /\ log[i].err.kind \in {"factory failed", "failed resolving argument"}
    /\ IsResolve(log[k]) /\ ResolveKey(log[k].call) = BindKey(log[i].call)
    /\ ~log[k].ok

\* C10: a Bind of a factory that has a parameter of the type of its first
\* result fails with the self-dependency error whatever the position of the
\* parameter and the options, stores nothing, and such a factory is never
\* invoked.
C10_SelfDependencyRejected ==
  /\ \A i \in DOMAIN log :
       (IsBind(log[i]) /\ SelfDependent(log[i].call.r))
       => /\ ~log[i].ok
          /\ log[i].err.kind = "can't depend on return type"
          /\ log[i].b = 0
          /\ InvocDuring(log[i].id) = {}
  /\ \A n \in DOMAIN invoc : ~SelfDependent(invoc[n].r)
  /\ \A b \in DOMAIN heap : ~SelfDependent(heap[b].resolver)

\* A factory whose first and one whose last parameter is its own result type
\* have both been rejected.
C10_Witness ==
  \E i, j \in DOMAIN log :
    /\ IsBind(log[i]) /\ log[i].call.r = "selfFirst" /\ ~log[i].ok
    /\ IsBind(log[j]) /\ log[j].call.r = "selfLast" /\ ~log[j].ok

\* ------------------------------------------------------------------- C11
\* The registry as the mapping (type, name) -> binding.
Registry(bs) == UNION {{<<ty, n, bs[ty][n]>> : n \in DOMAIN bs[ty]} : ty \in DOMAIN bs}

\* The resolvers Bind rejects: not a function, no result or more than two,
\* a parameter of the type of the first result.
Rejected(r) ==
  \/ Resolvers[r].kind # "func"
  \/ NumOut(r) = 0
  \/ NumOut(r) > 2
  \/ \E i \in 1..NumIn(r) : Resolvers[r].in[i] = Resolvers[r].out[1]

\* C11: a Bind of a rejected resolver (not a function, no result or more than
\* two, a parameter of the type of its first result) returns an error and
\* leaves the registry as it was: the same keys with the same bindings, and
\* every binding object, its cached instance included, unchanged.
C11_RejectedBindLeavesRegistry ==
  [][\A t \in Threads :
       (/\ th[t].pc = "wwait"
        /\ th[t].call.op = "Bind"
        /\ Rejected(th[t].call.r)
        /\ th'[t] # th[t])
       => /\ Len(log') = Len(log) + 1
          /\ log'[Len(log')].id = th[t].id
          /\ ~log'[Len(log')].ok
          /\ Registry(bindings') = Registry(bindings)
          /\ heap' = heap]_vars

\* A resolver with a parameter of its own result type was just rejected
\* while its key held a binding with a cached instance.
C11_Witness ==
  /\ log # << >>
  /\ LET e == log[Len(log)]
     IN /\ IsBind(e)
        /\ e.call.r = "selfDatabase"
        /\ ~e.ok
        /\ e.err.kind = "can't depend on return type"
        /\ Lookup(bindings, "Database", "") # 0
        /\ heap[Lookup(bindings, "Database", "")].concrete # 0

\* ------------------------------------------------------------------- C12
\* The registry has a binding for exactly (ty, name).
HasKey(ty, name) == ty \in DOMAIN bindings /\ name \in DOMAIN bindings[ty]

\* C12: ResolveNamed with a pointer target, for a (type, name) that has no
\* binding, returns the error "no binding found" naming that type and that
\* name, whatever other names of the type are bound; the call invokes no
\* factory and changes neither the registry nor a binding.
C12_NotFoundExactKey ==
  [][\A t \in Threads :
       (/\ th[t].pc = "rlock"
        /\ th[t].call.ptr
        /\ ~HasKey(th[t].call.type, th[t].call.name)
        /\ th'[t] # th[t])
       => /\ Len(log') = Len(log) + 1
          /\ log'[Len(log')].id = th[t].id
          /\ ~log'[Len(log')].ok
          /\ log'[Len(log')].err = Err("no binding found", th[t].call.type, th[t].call.name)
          /\ invoc' = invoc
          /\ heap' = heap
          /\ bindings' = bindings]_vars

\* ResolveNamed(&db, "n") has just failed while the default name of Database
\* is bound.
C12_Witness ==
  /\ log # << >>
  /\ LET e == log[Len(log)]
     IN /\ IsResolve(e)
        /\ e.call.name = "n"
        /\ e.err = Err("no binding found", "Database", "n")
        /\ HasKey("Database", "")

\* ------------------------------------------------------------------- C13
\* The frames of a stack, as positions.
Frames(t) == 1..Len(th[t].stack)

\* C13: when the factory being resolved declares a parameter whose type has
\* no binding under the default name, the call fails with "failed resolving
\* argument" naming that type; neither that factory nor the factory of any
\* dependent waiting on it is invoked by the call, and none of them has a
\* cached instance afterwards.
C13_MissingParameter ==
  [][\A t \in Threads :
       (/\ th[t].pc = "run"
        /\ th[t].stack # << >>
        /\ Top(t).st = "args"
        /\ Top(t).i <= NumIn(Top(t).r)
        /\ ~HasKey(Resolvers[Top(t).r].in[Top(t).i], "")
        /\ th'[t] # th[t])
       => /\ Len(log') = Len(log) + 1
          /\ log'[Len(log')].id = th[t].id
          /\ ~log'[Len(log')].ok
          /\ log'[Len(log')].err =
               Err("failed resolving argument", Resolvers[Top(t).r].in[Top(t).i], "")
          /\ invoc' = invoc
          /\ bindings' = bindings
          /\ \A j \in Frames(t) :
               /\ \A n \in InvocDuring(th[t].id) :
                    ~(invoc[n].b = th[t].stack[j].b /\ invoc[n].r = th[t].stack[j].r)
               /\ th[t].stack[j].b # 0 => heap'[th[t].stack[j].b].concrete = 0]_vars

\* Resolve(&userService) has just failed for want of a Database binding; the
\* UserService binding is registered and has no instance.
C13_Witness ==
  /\ log # << >>
  /\ LET e == log[Len(log)]
     IN /\ IsResolve(e)
        /\ e.call.type = "UserService"
        /\ e.err = Err("failed resolving argument", "Database", "")
        /\ e.b # 0
        /\ heap[e.b].resolver = "newUserService"
        /\ heap[e.b].concrete = 0
        /\ InvocOf(e.b) = {}

\* ------------------------------------------------------------------- C14
\* The instances handed to the factory of invocation m.
ArgsOf(m) == {invoc[m].args[j] : j \in DOMAIN invoc[m].args}

\* C14: when a factory reports a failure through its second result, the
\* call it runs in fails with that failure, and the first result is dropped:
\* no binding caches it, no call returns it, no factory receives it.  A
\* singleton binding whose factory failed is constructed by a later
\* invocation: a resolution that succeeds after the failure returns an
\* instance built after it.
C14_FailureNotCached ==
  /\ \A n \in DOMAIN invoc :
       ~invoc[n].ok =>
         /\ \A b \in DOMAIN heap : heap[b].concrete # n
         /\ \A m \in DOMAIN invoc : n \notin ArgsOf(m)
         /\ \A k \in DOMAIN log :
              log[k].id = invoc[n].id =>
                /\ ~log[k].ok
                /\ log[k].err = Err("factory failed", Resolvers[invoc[n].r].out[1], "")
  /\ \A k \in DOMAIN log :
       (IsResolve(log[k]) /\ log[k].ok) =>
         /\ invoc[log[k].val].ok
         /\ \A n \in InvocOf(log[k].b) :
              (~invoc[n].ok /\ invoc[n].id < log[k].id /\ heap[log[k].b].singleton)
                => (log[k].val \in BuiltOf(log[k].b) /\ log[k].val > n)

\* A singleton's factory failed in one Resolve; a later Resolve of the same
\* binding invoked it again, succeeded, and the binding caches that instance.
C14_Witness ==
  \E i, k \in DOMAIN log :
    /\ i < k
    /\ IsResolve(log[i]) /\ IsResolve(log[k])
    /\ log[i].b # 0 /\ log[i].b = log[k].b
    /\ heap[log[k].b].singleton
    /\ ~log[i].ok /\ log[i].err.kind = "factory failed"
    /\ log[k].ok
    /\ log[k].val \in InvocDuring(log[k].id)
    /\ heap[log[k].b].concrete = log[k].val

\* ------------------------------------------------------------------- C15
\* No Bind of the key of the Resolve log[k] has succeeded between log[i] and it.
NotBoundSince(i, k) ==
  \A m \in DOMAIN log :
    (i < m /\ m < k /\ IsBind(log[m]) /\ log[m].ok) => BindKey(log[m].call) # ResolveKey(log[k].call)

\* C15: a Resolve/ResolveNamed that returns after a Clear has returned, with
\* no successful Bind of its key in between, fails with "no binding found"
\* for its type and name and invokes no factory, whatever was bound or cached
\* before the Clear.
C15_ClearForgets ==
  \A i, k \in DOMAIN log :
    (/\ i < k
     /\ IsClear(log[i])
     /\ IsResolve(log[k])
     /\ log[k].call.ptr
     /\ NotBoundSince(i, k))
    => /\ ~log[k].ok
       /\ log[k].err = Err("no binding found", log[k].call.type, log[k].call.name)
       /\ InvocDuring(log[k].id) = {}

\* A key was resolved to an instance, Clear returned, and the same key was
\* resolved again.
C15_Witness ==
  \E j, i, k \in DOMAIN log :
    /\ j < i /\ i < k
    /\ IsResolve(log[j]) /\ log[j].ok /\ heap[log[j].b].concrete # 0
    /\ IsClear(log[i])
    /\ IsResolve(log[k]) /\ log[k].call = log[j].call
    /\ ~log[k].ok

\* ------------------------------------------------------------------- C16
IsResolveAll(e) == e.call.op = "ResolveAll"

Elements(e) == {e.val[j] : j \in DOMAIN e.val}

\* No Bind and no Clear has returned between log[i] and log[k].
NoWriteBetween(i, k) ==
  \A m \in DOMAIN log : (i < m /\ m < k) => (~IsBind(log[m]) /\ ~IsClear(log[m]))

\* C16: a ResolveAll that returns, on a type with N registered names (the
\* default name counts), returns N distinct instances, one for each binding
\* of the type: the cached instance of a singleton binding, which is the
\* instance ResolveNamed returns for that name, and an instance built during
\* the call for a transient binding.
C16_ResolveAllOnePerBinding ==
  /\ [][\A t \in Threads :
          (/\ th[t].call.op = "ResolveAll"
           /\ th[t].pc = "run"
           /\ th'[t].pc = "idle"
           /\ log'[Len(log')].ok)
          => LET ty    == th[t].call.type
                 names == IF ty \in DOMAIN bindings THEN DOMAIN bindings[ty] ELSE {}
                 e     == log'[Len(log')]
             IN /\ Len(e.val) = Cardinality(names)
                /\ Cardinality(Elements(e)) = Cardinality(names)
                /\ \A n \in names :
                     LET b == bindings[ty][n]
                     IN \E v \in Elements(e) :
                          IF heap'[b].singleton
                          THEN heap'[b].concrete = v
                          ELSE invoc'[v].b = b /\ invoc'[v].id = th[t].id]_vars
  /\ [](\A k, m \in DOMAIN log :
          (/\ IsResolveAll(log[k]) /\ log[k].ok
           /\ IsResolve(log[m]) /\ log[m].ok
           /\ log[m].call.type = log[k].call.type
           /\ heap[log[m].b].singleton
           /\ NoWriteBetween(k, m) /\ NoWriteBetween(m, k))
          => log[m].val \in Elements(log[k]))

\* ResolveAll returned two instances, one built during the call for a
\* transient binding, the other the instance a ResolveNamed returned.
C16_Witness ==
  \E k, m \in DOMAIN log :
    /\ IsResolveAll(log[k]) /\ log[k].ok
    /\ Len(log[k].val) = 2
    /\ \E v \in Elements(log[k]) :
         invoc[v].id = log[k].id /\ invoc[v].b # 0 /\ ~heap[invoc[v].b].singleton
    /\ IsResolve(log[m]) /\ log[m].ok /\ heap[log[m].b].singleton
    /\ log[m].val \in Elements(log[k])

\* ------------------------------------------------------------------- C17
\* Thread t has resolved every parameter of the factory on top of its stack:
\* the factory is the next thing it executes.
AtFactory(t) ==
  /\ th[t].pc = "run"
  /\ th[t].stack # << >>
  /\ Top(t).st = "args"
  /\ Top(t).i > NumIn(Top(t).r)

\* C17: a thread in Resolve/ResolveNamed executes no factory while it holds
\* the read lock of the registry: the read lock covers the lookup only and
\* is released before construction starts.
C17_Claim ==
  \A t \in Threads :
    (th[t].call.op = "Resolve" /\ AtFactory(t)) => lock.r[t] = 0

\* ------------------------------------------------------------------- C18
\* The types a resolver names: its first result and its parameters.
TypesOf(r) == {Resolvers[r].out[1]} \cup {Resolvers[r].in[j] : j \in DOMAIN Resolvers[r].in}

\* Thread u is inside a construction: it has resolution frames.
Constructing(u) == th[u].pc = "run" /\ th[u].stack # << >>

\* Thread t waits for a binding's mutex.
OnGuard(t) ==
  /\ th[t].pc = "run" /\ th[t].stack # << >>
  /\ Top(t).st = "enter"
  /\ heap[Top(t).b].singleton
  /\ heap[Top(t).b].mutex # 0

\* Thread t has called Resolve for a bound key and waits for the read lock
\* that thread u keeps it from: u constructs under the write lock, or under
\* a read lock a pending writer waits for.
HeldUpBy(t, u) ==
  /\ th[t].pc = "rlock"
  /\ HasKey(th[t].call.type, th[t].call.name)
  /\ ~CanRLock
  /\ Constructing(u)
  /\ lock.w = u \/ lock.r[u] > 0

\* What t resolves and what u constructs have no type in common.
Unrelated(t, u) ==
  LET target == heap[Lookup(bindings, th[t].call.type, th[t].call.name)].resolver
  IN \A j \in Frames(u) : TypesOf(target) \cap TypesOf(th[u].stack[j].r) = {}

\* C18: a thread that waits for a binding's mutex waits for a thread that
\* constructs that same binding, and no Resolve is held up by another
\* thread's construction of an unrelated binding.
C18_Claim ==
  /\ \A t \in Threads :
       OnGuard(t) =>
         \E u \in Threads \ {t} :
           heap[Top(t).b].mutex = u /\ \E j \in Frames(u) : th[u].stack[j].b = Top(t).b
  /\ \A t, u \in Threads :
       (t # u /\ HeldUpBy(t, u)) => ~Unrelated(t, u)

\* ------------------------------------------------------------------- C19
\* Thread t is inside Bind or Clear, past c.lock.Lock().
InMutation(t) == th[t].call.op \in {"Bind", "Clear"} /\ th[t].pc = "run"

\* Thread u is inside a resolution, past c.lock.RLock().
InLookup(u) == th[u].call.op = "Resolve" /\ th[u].pc = "run"

C19_ReadersOverlap ==
  \E t, u \in Threads : t # u /\ InLookup(t) /\ InLookup(u) /\ lock.r[t] > 0 /\ lock.r[u] > 0

\* ------------------------------------------------------------------- C20
\* The factory r, which Bind accepts, takes the first result of another
\* factory Bind accepts, which takes the first result of r.
Cyclic(r) ==
  /\ ~Rejected(r)
  /\ \E q \in DOMAIN Resolvers \ {r} :
       /\ ~Rejected(q)
       /\ \E j \in DOMAIN Resolvers[r].in : Resolvers[r].in[j] = Resolvers[q].out[1]
       /\ \E j \in DOMAIN Resolvers[q].in : Resolvers[q].in[j] = Resolvers[r].out[1]

\* Thread t resolves the default binding of a type A whose factory takes a
\* type B, and the default binding of B has a factory that takes A.
InCycle(t) ==
  /\ th[t].call.op = "Resolve"
  /\ th[t].pc = "run"
  /\ th[t].stack # << >>
  /\ LET f == th[t].stack[1]
     IN /\ Lookup(bindings, Resolvers[f.r].out[1], "") = f.b
        /\ \E j \in DOMAIN Resolvers[f.r].in :
             LET bb == Lookup(bindings, Resolvers[f.r].in[j], "")
             IN /\ bb # 0
                /\ \E i \in DOMAIN Resolvers[heap[bb].resolver].in :
                     Resolvers[heap[bb].resolver].in[i] = Resolvers[f.r].out[1]

C20_Overflow ==
  \E t \in Threads : th[t].pc = "fatal" /\ th[t].call.op = "Resolve"

\* ------------------------------------------------------------------- C21
\* The types an error's message names.
NamedIn(e) == {e.type} \ {""}

\* C21: when the resolution of a parameter fails inside a Resolve, the error
\* the caller receives names the cause, the parameter type that could not be
\* resolved, and the type the caller asked for, whose frame the failure
\* passed through.
C21_Claim ==
  \A k \in DOMAIN log :
    (IsResolve(log[k]) /\ ~log[k].ok /\ log[k].err.kind = "failed resolving argument")
    => /\ log[k].err.type \in NamedIn(log[k].err)
       /\ log[k].call.type \in NamedIn(log[k].err)

\* ------------------------------------------------------------------- C22
\* log[i] is a Resolve that failed on a parameter after it had constructed
\* another, and log[k] a later Resolve of the same binding, the registry
\* unchanged in between.
RetryAfterFailure(i, k) ==
  /\ i < k
  /\ IsResolve(log[i]) /\ IsResolve(log[k])
  /\ log[i].b # 0 /\ log[i].b = log[k].b
  /\ ~log[i].ok /\ log[i].err.kind = "failed resolving argument"
  /\ NoWriteBetween(i, k)

\* C22 as claimed: every parameter constructed in the failed attempt is
\* constructed again in the later attempt.
C22_Original ==
  \A i, k \in DOMAIN log :
    RetryAfterFailure(i, k) =>
      \A n \in InvocDuring(log[i].id) :
        \E m \in InvocDuring(log[k].id) : invoc[m].b = invoc[n].b

\* C22: a Resolve that fails on a parameter invokes neither the failing
\* factory nor any factory twice (nothing is retried).  In a later attempt a
\* parameter built by a transient binding is constructed again; a parameter
\* built by a singleton binding stays cached in that binding and the later
\* attempt does not construct it.
C22_AbortNoReuseOfArguments ==
  /\ \A k \in DOMAIN log :
       (IsResolve(log[k]) /\ ~log[k].ok /\ log[k].b # 0) =>
         /\ \A n \in InvocDuring(log[k].id) : invoc[n].ok => invoc[n].b # log[k].b
         /\ \A n, m \in InvocDuring(log[k].id) : invoc[n].b = invoc[m].b => n = m
  /\ \A i, k \in DOMAIN log :
       RetryAfterFailure(i, k) =>
         \A n \in InvocDuring(log[i].id) :
           IF heap[invoc[n].b].singleton
           THEN /\ heap[invoc[n].b].concrete = n
                /\ \A m \in InvocDuring(log[k].id) : invoc[m].b # invoc[n].b
           ELSE \E m \in InvocDuring(log[k].id) : m # n /\ invoc[m].b = invoc[n].b

\* Two attempts failed on the second parameter; the first parameter was
\* built by a singleton binding in the first attempt.
C22_Witness ==
  \E i, k \in DOMAIN log :
    /\ RetryAfterFailure(i, k)
    /\ ~log[k].ok
    /\ \E n \in InvocDuring(log[i].id) : heap[invoc[n].b].singleton

\* ------------------------------------------------------------------- C23
\* C23: Resolve/ResolveNamed with a target that is not a pointer returns the
\* error "target must be a pointer", whether or not the type is bound; the
\* call invokes no factory and changes no binding and no cached instance.
C23_TargetNotPointer ==
  [][\A t \in Threads :
       (/\ th[t].pc = "rlock"
        /\ ~th[t].call.ptr
        /\ th'[t] # th[t])
       => /\ Len(log') = Len(log) + 1
          /\ log'[Len(log')].id = th[t].id
          /\ ~log'[Len(log')].ok
          /\ log'[Len(log')].err = Err("target must be a pointer", "", "")
          /\ invoc' = invoc
          /\ heap' = heap
          /\ bindings' = bindings]_vars

\* Resolve(db) with a value has just failed while Database is bound and has
\* no instance yet.
C23_Witness ==
  /\ log # << >>
  /\ LET e == log[Len(log)]
     IN /\ IsResolve(e)
        /\ ~e.call.ptr
        /\ e.err.kind = "target must be a pointer"
        /\ HasKey(e.call.type, e.call.name)
        /\ heap[bindings[e.call.type][e.call.name]].concrete = 0

\* ------------------------------------------------------------------- C24
\* C24: from every state, the step Resolve(target) takes after RLock is the
\* step ResolveNamed(target, "") takes: the same error for a missing default
\* binding, or the resolution of the binding of (type, ""), with the same
\* change of lock, bindings, cached instances and invocations; the steps
\* that follow depend on the binding alone.
C24_ResolveIsResolveNamedEmpty ==
  [][\A t \in Threads :
       (/\ th[t].pc = "rlock"
        /\ "method" \in DOMAIN th[t].call
        /\ th[t].call.method = "Resolve"
        /\ th[t].call.ptr
        /\ th'[t] # th[t])
       => IF HasKey(th[t].call.type, "")
          THEN /\ th'[t].pc = "run"
               /\ th'[t].stack = <<[b |-> bindings[th[t].call.type][""],
                                    r |-> heap[bindings[th[t].call.type][""]].resolver,
                                    i |-> 1, args |-> << >>, st |-> "enter"]>>
               /\ lock' = [lock EXCEPT !.r[t] = @ + 1]
               /\ UNCHANGED <<bindings, heap, invoc, log>>
          ELSE /\ Len(log') = Len(log) + 1
               /\ log'[Len(log')].err = Err("no binding found", th[t].call.type, "")
               /\ UNCHANGED <<bindings, heap, invoc, lock>>]_vars

\* Resolve(&db) returned the instance of the default binding although the
\* name "n" is bound too, and ResolveNamed(&db, "") returns that instance.
C24_Witness ==
  \E i, k \in DOMAIN log :
    /\ IsResolve(log[i]) /\ "method" \in DOMAIN log[i].call /\ log[i].ok
    /\ IsResolve(log[k]) /\ "method" \notin DOMAIN log[k].call /\ log[k].ok
    /\ log[k].call.name = ""
    /\ log[i].val = log[k].val
    /\ HasKey(log[i].call.type, "n")

\* ------------------------------------------------------------------- C25
IsLazyResolve(e) ==
  e.call.op = "Resolve" /\ "method" \in DOMAIN e.call /\ e.call.method = "Lazy.Resolve"

\* C25: every Resolve() of a handle is a resolution of (T, "") in the
\* registry as it is at that call: after a Clear with no Bind of (T, "")
\* since, it fails with "no binding found"; after a Bind of (T, "") it is
\* served by the binding that Bind stored and returns an instance of that
\* binding, never one the handle returned before the Bind.
C25_HandleResolvesAfresh ==
  \A k \in DOMAIN log :
    IsLazyResolve(log[k]) =>
      /\ \A i \in DOMAIN log :
           (/\ i < k /\ IsClear(log[i])
            /\ \A m \in DOMAIN log :
                 (i < m /\ m < k /\ IsBind(log[m]) /\ log[m].ok)
                 => BindKey(log[m].call) # <<log[k].call.type, "">>)
           => (~log[k].ok /\ log[k].err = Err("no binding found", log[k].call.type, ""))
      /\ \A j \in DOMAIN log :
           (/\ j < k /\ IsBind(log[j]) /\ log[j].ok
            /\ BindKey(log[j].call) = <<log[k].call.type, "">>
            /\ NoWriteBetween(j, k))
           => /\ log[k].b = log[j].b
              /\ log[k].ok => log[k].val \in InstancesOf(j)
              /\ \A i \in DOMAIN log :
                   (i < j /\ IsLazyResolve(log[i]) /\ log[i].ok /\ log[k].ok)
                   => log[k].val # log[i].val

\* The handle returned an instance, the type was bound again, and the
\* handle returned an instance of the new binding.
C25_Witness ==
  \E i, j, k \in DOMAIN log :
    /\ i < j /\ j < k
    /\ IsLazyResolve(log[i]) /\ log[i].ok
    /\ IsBind(log[j]) /\ log[j].ok
    /\ IsLazyResolve(log[k]) /\ log[k].ok
    /\ log[k].b = log[j].b
    /\ log[k].val # log[i].val

\* The handle returned an instance, Clear returned, and the handle failed.
C25_AfterClear ==
  \E i, j, k \in DOMAIN log :
    /\ i < j /\ j < k
    /\ IsLazyResolve(log[i]) /\ log[i].ok
    /\ IsClear(log[j])
    /\ IsLazyResolve(log[k]) /\ ~log[k].ok

\* ------------------------------------------------------------------- C26
\* Thread t runs a factory that has called Bind and is inside c.lock.Lock().
InFactoryLock(t) == th[t].pc \in {"fwlock", "fwwait"}

\* C26: a factory that calls Bind on the container that runs it gets no
\* error: its thread stays inside Lock and its call never returns.  What
\* Lock waits for cannot happen: the thread itself holds the read lock of
\* its Resolve, or the write lock of its eager Bind, until that call returns.
C26_ReentrantBindBlocks ==
  /\ [](\A t \in Threads :
          /\ th[t].pc = "fwwait" => lock.r[t] > 0
          /\ th[t].pc = "fwlock" => (lock.r[t] > 0 \/ (lock.w = t /\ lock.x)))
  /\ [][\A t \in Threads :
          InFactoryLock(t) =>
            /\ InFactoryLock(t)'
            /\ th'[t].stack = th[t].stack
            /\ \A k \in DOMAIN log' : log'[k].id # th[t].id]_vars

\* A Resolve runs the factory, which holds rw.w and waits for the readers
\* to leave while its own thread is one of them.
C26_Witness ==
  \E t \in Threads :
    /\ th[t].pc = "fwwait"
    /\ th[t].call.op = "Resolve"
    /\ lock.w = t
    /\ lock.r[t] > 0

\* An eager Bind runs the factory, which waits for rw.w that its own thread holds.
C26_InEagerBind ==
  \E t \in Threads : th[t].pc = "fwlock" /\ th[t].call.op = "Bind" /\ lock.w = t

\* ------------------------------------------------------------------- C27
\* C27: a transient binding never has a cached instance; the cached
\* instance of a singleton binding, once set, is never replaced or cleared
\* as long as the binding object exists, and it is set only by the thread
\* that holds the binding's mutex, or when the binding is created.
C27_CacheSetOnce ==
  /\ [](\A b \in DOMAIN heap : ~heap[b].singleton => heap[b].concrete = 0)
  /\ [][\A b \in DOMAIN heap :
          /\ b \in DOMAIN heap'
          /\ heap'[b].singleton = heap[b].singleton
          /\ heap[b].concrete # 0 => heap'[b].concrete = heap[b].concrete
          /\ heap'[b].concrete # heap[b].concrete => heap[b].mutex # 0]_vars

\* A singleton binding was constructed and served a later Resolve from its
\* cache.
C27_Witness ==
  /\ \E i, k \in DOMAIN log :
       /\ i < k
       /\ IsResolve(log[i]) /\ IsResolve(log[k])
       /\ log[i].ok /\ log[k].ok
       /\ log[i].b = log[k].b
       /\ heap[log[k].b].singleton
       /\ heap[log[k].b].concrete = log[i].val
       /\ InvocDuring(log[k].id) = {}

\* A transient binding has been resolved twice and still caches nothing.
C27_TransientResolved ==
  \E i, k \in DOMAIN log :
    /\ i < k
    /\ IsResolve(log[i]) /\ IsResolve(log[k])
    /\ log[i].ok /\ log[k].ok
    /\ log[i].b = log[k].b
    /\ ~heap[log[k].b].singleton
    /\ heap[log[k].b].concrete = 0

\* ------------------------------------------------------------------- C28
\* The resolver returns (T, error).
ReturnsError(r) == NumOut(r) = 2 /\ Resolvers[r].out[2] = "error"

\* C28: a Bind succeeded only for a function with one or two results; a
\* resolver that is not a function fails with "the resolver must be a
\* function", a function with no result or with more than two fails with
\* "need exactly one or two return values"; a lazy Bind of a function
\* returning (T, error) without a parameter of type T succeeds without an
\* invocation, and the error result counts only in an invocation: a Resolve
\* fails with the factory's error only when the factory ran and returned it.
C28_ResolverShape ==
  /\ \A i \in DOMAIN log :
       IsBind(log[i]) =>
         LET r == log[i].call.r
         IN /\ log[i].ok => Resolvers[r].kind = "func" /\ NumOut(r) \in {1, 2}
            /\ Resolvers[r].kind # "func" =>
                 /\ ~log[i].ok
                 /\ log[i].err = Err("container: the resolver must be a function", "", "")
            /\ (Resolvers[r].kind = "func" /\ (NumOut(r) = 0 \/ NumOut(r) > 2)) =>
                 /\ ~log[i].ok
                 /\ log[i].err = Err("need exactly one or two return values", "", "")
            /\ (ReturnsError(r) /\ ~SelfDependent(r) /\ ~AsksEager(log[i].call)) =>
                 /\ log[i].ok
                 /\ InvocDuring(log[i].id) = {}
  /\ \A i \in DOMAIN log :
       (~log[i].ok /\ log[i].err.kind = "factory failed") =>
         \E k \in InvocDuring(log[i].id) : ReturnsError(invoc[k].r) /\ ~invoc[k].ok

\* A function returning (T, error) was bound lazily and its error came out
\* of a later Resolve.
C28_Witness ==
  \E i, k \in DOMAIN log :
    /\ i < k
    /\ IsBind(log[i]) /\ log[i].ok /\ ReturnsError(log[i].call.r)
    /\ IsResolve(log[k]) /\ ~log[k].ok /\ log[k].err.kind = "factory failed"

\* A value that is not a function was rejected.
C28_NotAFunction ==
  \E i \in DOMAIN log :
    IsBind(log[i]) /\ ~log[i].ok /\ Resolvers[log[i].call.r].kind # "func"

\* A function with three results was rejected.
C28_ThreeResults ==
  \E i \in DOMAIN log : IsBind(log[i]) /\ ~log[i].ok /\ NumOut(log[i].call.r) = 3

\* A function without a result was rejected.
C28_NoResult ==
  \E i \in DOMAIN log :
    /\ IsBind(log[i]) /\ ~log[i].ok
    /\ Resolvers[log[i].call.r].kind = "func" /\ NumOut(log[i].call.r) = 0

\* ------------------------------------------------------------------- C29
\* Thread t is about to resolve the next parameter of the factory on top of
\* its stack.
AtParameter(t) ==
  /\ th[t].pc = "run"
  /\ th[t].stack # << >>
  /\ Top(t).st = "args"
  /\ Top(t).i <= NumIn(Top(t).r)

\* The type of that parameter.
ParameterType(t) == Resolvers[Top(t).r].in[Top(t).i]

\* C29: the step that resolves a parameter either goes on with the binding
\* registered under (parameter type, ""), or, when the type has no binding
\* under "", ends the call with the error "failed resolving argument" and
\* the parameter type, whatever named bindings the type has, and invokes no
\* factory.
C29_ParameterByDefaultName ==
  [][\A t \in Threads :
       (AtParameter(t) /\ th'[t] # th[t]) =>
         IF HasKey(ParameterType(t), "")
         THEN /\ Len(th'[t].stack) = Len(th[t].stack) + 1
              /\ th'[t].stack[Len(th'[t].stack)].b = bindings[ParameterType(t)][""]
         ELSE /\ Len(log') = Len(log) + 1
              /\ log'[Len(log')].id = th[t].id
              /\ ~log'[Len(log')].ok
              /\ log'[Len(log')].err =
                   Err("failed resolving argument", ParameterType(t), "")
              /\ invoc' = invoc]_vars

\* The parameter type is bound under "n" only, and resolving the dependent
\* has just failed on it.
C29_Witness ==
  /\ log # << >>
  /\ HasKey("Database", "n")
  /\ ~HasKey("Database", "")
  /\ LET e == log[Len(log)]
     IN /\ IsResolve(e)
        /\ e.call.type = "UserService"
        /\ ~e.ok
        /\ e.err = Err("failed resolving argument", "Database", "")

\* The parameter type is bound under both names, and the dependent's
\* factory received the instance of the default binding.
C29_DefaultChosen ==
  /\ HasKey("Database", "n")
  /\ HasKey("Database", "")
  /\ \E m \in DOMAIN invoc :
       /\ invoc[m].r = "newUserService"
       /\ invoc[m].args = <<heap[bindings["Database"][""]].concrete>>

\* ------------------------------------------------------------------- C30
\* The singleton bindings that supplied the instance v: the binding whose
\* factory built it, or the one created around it by an eager Bind.
SuppliedBy(v) ==
  {b \in DOMAIN heap :
     heap[b].singleton /\ (invoc[v].b = b \/ heap[b].concrete = v)}

\* C30, as stated: the instance of a singleton dependency injected into a
\* dependent's factory is the one every direct Resolve of the dependency
\* returns, and the dependency's factory has been invoked exactly once.
C30_Original ==
  \A m \in DOMAIN invoc : \A j \in DOMAIN invoc[m].args :
    \A b \in SuppliedBy(invoc[m].args[j]) :
      /\ \A k \in DOMAIN log :
           (IsResolve(log[k]) /\ log[k].ok /\ log[k].b = b)
             => log[k].val = invoc[m].args[j]
      /\ Cardinality(InvocOf(b)) = 1

\* C30, amended: the injected instance is the binding's cached instance and
\* the one every direct Resolve of the dependency returns, and at most one
\* invocation of the dependency's factory has returned an instance
\* (invocations that failed before cached nothing and were repeated).
C30_SharedDependency ==
  \A m \in DOMAIN invoc : \A j \in DOMAIN invoc[m].args :
    \A b \in SuppliedBy(invoc[m].args[j]) :
      /\ heap[b].concrete = invoc[m].args[j]
      /\ \A k \in DOMAIN log :
           (IsResolve(log[k]) /\ log[k].ok /\ log[k].b = b)
             => log[k].val = invoc[m].args[j]
      /\ Cardinality(BuiltOf(b)) <= 1

\* A dependent's factory received the instance of a singleton dependency,
\* and a direct Resolve of the dependency returned an instance after that.
C30_Witness ==
  \E m \in DOMAIN invoc : \E j \in DOMAIN invoc[m].args :
    \E b \in SuppliedBy(invoc[m].args[j]) :
      \E k \in DOMAIN log :
        /\ IsResolve(log[k]) /\ log[k].ok /\ log[k].b = b
        /\ InvocDuring(log[k].id) = {}
        /\ \E i \in DOMAIN log : i < k /\ log[i].id = invoc[m].id

\* ------------------------------------------------------------------- C31
\* C31: a Bind that asks for a transient and eager binding of an accepted
\* resolver invokes the factory before it returns; the binding it registers
\* caches nothing, and every successful resolution of that binding returns
\* an instance its own call built with the binding's factory, never the one
\* built during the Bind.
C31_EagerTransientFresh ==
  \A i \in DOMAIN log :
    (IsBind(log[i]) /\ AsksEager(log[i].call) /\ AsksTransient(log[i].call)
       /\ ~Rejected(log[i].call.r))
    => /\ \E m \in InvocDuring(log[i].id) : invoc[m].r = log[i].call.r
       /\ log[i].ok =>
            /\ heap[log[i].b].concrete = 0
            /\ \A k \in DOMAIN log :
                 (IsResolve(log[k]) /\ log[k].ok /\ log[k].b = log[i].b)
                 => /\ log[k].val \in InvocDuring(log[k].id)
                    /\ invoc[log[k].val].r = log[i].call.r
                    /\ log[k].val \notin InvocDuring(log[i].id)

\* A transient and eager binding has been resolved twice.
C31_Witness ==
  \E i, j, k \in DOMAIN log :
    /\ i < j /\ j < k
    /\ IsBind(log[i]) /\ log[i].ok
    /\ AsksEager(log[i].call) /\ AsksTransient(log[i].call)
    /\ IsResolve(log[j]) /\ log[j].ok /\ log[j].b = log[i].b
    /\ IsResolve(log[k]) /\ log[k].ok /\ log[k].b = log[i].b
    /\ log[j].val # log[k].val

\* ------------------------------------------------------------------- C32
\* A Clear call takes effect in this step.
ClearStep ==
  \E t \in Threads :
    th[t].pc = "wwait" /\ th[t].call.op = "Clear" /\ th'[t] # th[t]

\* C32: the step in which Clear takes effect writes to no binding object and
\* to no instance: every binding that existed keeps its cached instance and
\* every instance handed out is what it was; and when a key was resolved,
\* the container cleared, and the same factory bound again as a lazy
\* singleton, the next successful resolution of the key invokes the factory
\* and returns the instance of that invocation, not the one returned before
\* the Clear.
C32_ClearKeepsInstances ==
  /\ [][ClearStep => (heap' = heap /\ invoc' = invoc)]_vars
  /\ [](\A i, c, j, k \in DOMAIN log :
         (/\ i < c /\ c < j /\ j < k
          /\ IsResolve(log[i]) /\ log[i].ok
          /\ IsClear(log[c])
          /\ IsBind(log[j]) /\ log[j].ok
          /\ BindKey(log[j].call) = ResolveKey(log[i].call)
          /\ log[j].call.r = invoc[log[i].val].r
          /\ ~AsksTransient(log[j].call) /\ ~AsksEager(log[j].call)
          /\ IsResolve(log[k]) /\ log[k].ok
          /\ log[k].b = log[j].b
          /\ \A m \in DOMAIN log : (j < m /\ m < k) => log[m].b # log[j].b)
         => /\ log[k].val # log[i].val
            /\ log[k].val \in InvocDuring(log[k].id)
            /\ invoc[log[k].val].r = log[j].call.r
            /\ heap[log[i].b].singleton => heap[log[i].b].concrete = log[i].val)

\* Resolve, Clear, the same factory bound again, Resolve.
C32_Witness ==
  \E i, c, j, k \in DOMAIN log :
    /\ i < c /\ c < j /\ j < k
    /\ IsResolve(log[i]) /\ log[i].ok
    /\ IsClear(log[c])
    /\ IsBind(log[j]) /\ log[j].ok
    /\ log[j].call.r = invoc[log[i].val].r
    /\ IsResolve(log[k]) /\ log[k].ok
    /\ log[k].b = log[j].b

\* ------------------------------------------------------------------- C33
\* The call of thread t ends with an error in this step, while its factory
\* frames are on the stack.
FailStep(t) ==
  /\ th[t].pc = "run"
  /\ th[t].stack # << >>
  /\ Len(log') = Len(log) + 1
  /\ log'[Len(log')].id = th[t].id
  /\ ~log'[Len(log')].ok

\* The resolvers invoked so far, this step included, by the call of thread t.
InvokedBy(t) == {invoc'[m].r : m \in {n \in DOMAIN invoc' : invoc'[n].id = th[t].id}}

\* C33: a factory frame holds the instances of its first i-1 parameters, in
\* the order of the declaration, each built by a factory of the parameter's
\* type, while it resolves the i-th; and when the call fails while a frame
\* is at its i-th parameter, the call ends there: it has invoked neither the
\* frame's own factory nor a factory of the type of a later parameter, and
\* every singleton binding of an earlier parameter still caches the
\* instance the frame had received.
C33_InOrderStopAtFirst ==
  /\ [](\A t \in Threads : \A n \in Frames(t) :
         LET f == th[t].stack[n]
         IN f.st = "args" =>
              /\ Len(f.args) = f.i - 1
              /\ f.i <= NumIn(f.r) + 1
              /\ \A j \in DOMAIN f.args :
                   Resolvers[invoc[f.args[j]].r].out[1] = Resolvers[f.r].in[j])
  /\ [][\A t \in Threads : FailStep(t) =>
          /\ th'[t] = Idle
          /\ \A n \in Frames(t) :
               LET f == th[t].stack[n]
               IN (f.st = "args" /\ f.i <= NumIn(f.r)) =>
                    /\ f.r \notin InvokedBy(t)
                    /\ \A k \in (f.i + 1)..NumIn(f.r) : \A q \in InvokedBy(t) :
                         Resolvers[q].out[1] # Resolvers[f.r].in[k]
                    /\ \A j \in 1..(f.i - 1) :
                         LET bj == bindings[Resolvers[f.r].in[j]][""]
                         IN heap'[bj].singleton => heap'[bj].concrete = f.args[j]]_vars

\* The first parameter's factory has just failed while a factory of the
\* second parameter's type is registered.
C33_Witness ==
  /\ log # << >>
  /\ LET e == log[Len(log)]
     IN /\ IsResolve(e) /\ ~e.ok
        /\ e.call.type = "UserService"
        /\ e.err = Err("factory failed", "Database", "")
        /\ HasKey("Logger", "")
        /\ \A m \in InvocDuring(e.id) : invoc[m].r = "newDatabaseErr"

\* The second parameter has just failed after the first, a singleton, was
\* built by this call, and the first stays cached.
C33_EarlierCached ==
  /\ log # << >>
  /\ LET e == log[Len(log)]
     IN /\ IsResolve(e) /\ ~e.ok
        /\ e.err = Err("failed resolving argument", "Logger", "")
        /\ \E m \in InvocDuring(e.id) :
             /\ invoc[m].r = "newDatabase"
             /\ HasKey("Database", "")
             /\ heap[bindings["Database"][""]].concrete = m

\* ------------------------------------------------------------------- C34
\* Thread t is inside a Resolve or ResolveNamed call, past its top-level
\* lookup.
Resolving(t) == th[t].pc = "run" /\ th[t].call.op = "Resolve"

\* The key frame n of thread t's resolution was looked up under: the key of
\* the call for the first frame, the type of the parameter the frame below
\* is at, with the default name, for the others.
FrameKey(t, n) ==
  IF n = 1
  THEN <<ResolveNamedOf(th[t].call).type, ResolveNamedOf(th[t].call).name>>
  ELSE <<Resolvers[th[t].stack[n - 1].r].in[th[t].stack[n - 1].i], "">>

\* C34: while a thread is inside a Resolve or ResolveNamed call, from its
\* top-level lookup to its return, no step changes the registry; so every
\* binding on the call's resolution stack is the one the registry holds now
\* under the key it was looked up with.
C34_OneSnapshot ==
  /\ [][(\E t \in Threads : Resolving(t)) => bindings' = bindings]_vars
  /\ [](\A t \in Threads : Resolving(t) =>
         \A n \in Frames(t) :
           /\ HasKey(FrameKey(t, n)[1], FrameKey(t, n)[2])
           /\ th[t].stack[n].b = bindings[FrameKey(t, n)[1]][FrameKey(t, n)[2]])

\* A thread has made a nested parameter lookup while a Bind or Clear of the
\* other thread waits for the exclusive section.
C34_Witness ==
  \E t, u \in Threads :
    /\ t # u
    /\ Resolving(t)
    /\ Len(th[t].stack) >= 2
    /\ th[u].pc = "wwait"
    /\ lock.w = u

\* ------------------------------------------------------------------- C35
\* No factory the callers register is part of a cycle or calls back into the
\* container; every factory of the model returns.
WellFormed == \A c \in scn.binds : ~Cyclic(c.r) /\ c.r \notin Reentrant

C35_WaitsForWriter ==
  /\ WellFormed
  /\ \E t, u \in Threads :
       /\ th[t].pc \in {"rlock", "wlock"}
       /\ lock.w = u /\ lock.x
       /\ th[u].pc = "run"

\* ------------------------------------------------------------------- C36
\* Thread t runs a factory that has called Resolve on the container (in its
\* body, or through Resolve() of a handle, which is the same call) and the
\* call has not taken the read lock yet.
InFactoryResolve(t) == th[t].pc = "frlock"

\* C36: a factory that calls Resolve while an eager Bind runs it never gets
\* the read lock: the thread holds the write lock itself, and neither it nor
\* the lock ever changes again.  A factory that calls Resolve during a
\* Resolve, once another thread's Bind or Clear has started waiting for the
\* write lock, never gets it either: the writer waits for the read lock the
\* factory's thread holds, the factory waits for the writer, and neither
\* thread moves again.
C36_NestedResolveBlocks ==
  /\ [](\A t \in Threads :
         (InFactoryResolve(t) /\ th[t].call.op = "Bind") => (lock.w = t /\ lock.x))
  /\ [](\A t \in Threads :
         (InFactoryResolve(t) /\ th[t].call.op = "Resolve" /\ lock.w # 0) =>
           /\ lock.w # t
           /\ lock.r[t] > 0
           /\ th[lock.w].pc = "wwait")
  /\ [][\A t \in Threads :
          (InFactoryResolve(t) /\ lock.w # 0) =>
            /\ th'[t] = th[t]
            /\ th'[lock.w] = th[lock.w]
            /\ lock' = lock
            /\ bindings' = bindings]_vars

\* During a Resolve, the factory has called Resolve and the other thread's
\* Bind or Clear waits for the write lock: neither will return.
C36_Witness ==
  \E t, u \in Threads :
    /\ t # u
    /\ InFactoryResolve(t)
    /\ th[t].call.op = "Resolve"
    /\ lock.r[t] > 0
    /\ lock.w = u
    /\ th[u].pc = "wwait"

\* An eager Bind runs a factory that has called Resolve.
C36_InEagerBind ==
  \E t \in Threads :
    InFactoryResolve(t) /\ th[t].call.op = "Bind" /\ lock.w = t

\* No writer came in between: the factory's Resolve returned and the outer
\* Resolve returned the factory's instance.
C36_Unblocked ==
  \E k \in DOMAIN log :
    /\ IsResolve(log[k]) /\ log[k].ok
    /\ log[k].call.type = "Locator"
    /\ \E m \in InvocDuring(log[k].id) : invoc[m].r = "newLocator" /\ invoc[m].args # << >>

\* ------------------------------------------------------------------- C37
\* The Bind call registers, under the default name, the type of a parameter
\* of the factory r.
BindsParameterOf(call, r) ==
  \E p \in DOMAIN Resolvers[r].in : BindKey(call) = <<Resolvers[r].in[p], "">>

\* C37: when a singleton binding with a dependency was resolved, the
\* dependency's type was bound again, and the same binding is resolved
\* again, the second resolution returns the same instance without invoking
\* a factory, and no argument that instance was built with comes from the
\* new binding of the dependency; a resolution of the dependency's key
\* after the new Bind is served by the new binding, with an instance built
\* for it and different from those arguments.
C37_RebindKeepsDependents ==
  /\ \A i, j, k \in DOMAIN log :
       (/\ i < j /\ j < k
        /\ IsResolve(log[i]) /\ log[i].ok /\ heap[log[i].b].singleton
        /\ IsBind(log[j]) /\ log[j].ok
        /\ BindsParameterOf(log[j].call, heap[log[i].b].resolver)
        /\ IsResolve(log[k]) /\ log[k].ok /\ log[k].b = log[i].b)
       => /\ log[k].val = log[i].val
          /\ InvocDuring(log[k].id) = {}
          /\ \A a \in ArgsOf(log[k].val) :
               invoc[a].b # log[j].b /\ a \notin InvocDuring(log[j].id)
  /\ \A j, k \in DOMAIN log :
       (/\ j < k
        /\ IsBind(log[j]) /\ log[j].ok
        /\ IsResolve(log[k]) /\ log[k].ok
        /\ ResolveKey(log[k].call) = BindKey(log[j].call)
        /\ \A m \in DOMAIN log :
             (j < m /\ m < k) =>
               /\ ~IsClear(log[m])
               /\ (IsBind(log[m]) /\ log[m].ok) => BindKey(log[m].call) # BindKey(log[j].call))
       => /\ log[k].b = log[j].b
          /\ invoc[log[k].val].b = log[j].b \/ log[k].val \in InvocDuring(log[j].id)

\* The dependent was built, the dependency bound again, and then both were
\* resolved: the dependent holds the old instance of the dependency, the
\* dependency's key gives a new one.
C37_Witness ==
  \E i, j, k, l \in DOMAIN log :
    /\ i < j /\ j < k /\ j < l
    /\ IsResolve(log[i]) /\ log[i].ok /\ heap[log[i].b].singleton
    /\ IsBind(log[j]) /\ log[j].ok
    /\ BindsParameterOf(log[j].call, heap[log[i].b].resolver)
    /\ IsResolve(log[k]) /\ log[k].ok /\ log[k].b = log[i].b
    /\ IsResolve(log[l]) /\ log[l].ok /\ log[l].b = log[j].b
    /\ log[l].val \notin ArgsOf(log[k].val)
    /\ ArgsOf(log[k].val) # {}

\* ------------------------------------------------------------------- C38
\* The registered (type, name) keys.
Keys(bs) == {<<x[1], x[2]>> : x \in Registry(bs)}

\* Thread t takes a step of a Resolve or ResolveNamed call it has issued.
ResolveStep(t) ==
  /\ th[t].call.op = "Resolve"
  /\ th[t].pc \in {"rlock", "run"}
  /\ th'[t] # th[t]

\* C38: no step of a Resolve or ResolveNamed call changes the registered
\* (type, name) keys or the binding a key is registered to; the step in
\* which the call returns writes an instance to the target exactly when it
\* returns no error: the val of the log entry is what the target received,
\* 0 when nothing was written.
C38_ResolveFrame ==
  [][\A t \in Threads : ResolveStep(t) =>
       /\ Keys(bindings') = Keys(bindings)
       /\ Registry(bindings') = Registry(bindings)
       /\ DOMAIN bindings' = DOMAIN bindings
       /\ Len(log') > Len(log) =>
            LET e == log'[Len(log')]
            IN /\ e.id = th[t].id
               /\ e.ok => (e.val # 0 /\ e.err = NoErr)
               /\ ~e.ok => (e.val = 0 /\ e.err # NoErr)]_vars

\* A Resolve has just failed after its call had built an instance of a
\* parameter, and the target received nothing.
C38_Witness ==
  /\ log # << >>
  /\ LET e == log[Len(log)]
     IN /\ IsResolve(e) /\ ~e.ok
        /\ \E m \in InvocDuring(e.id) : invoc[m].ok
        /\ e.val = 0

\* ------------------------------------------------------------------- C39
\* The options a Bind call is made with, in the order of application: those
\* its convenience method implies, then the caller's, left to right.
Given(call) ==
  (CASE call.method = "BindTransient"      -> <<"WithTransient">>
     [] call.method = "BindNamed"          -> <<"WithName">>
     [] call.method = "BindNamedTransient" -> <<"WithName", "WithTransient">>
     [] OTHER                              -> << >>)
  \o [k \in DOMAIN call.opts |-> call.opts[k].opt]

\* The position in Given(call) of the last option of one of the kinds, 0 if
\* there is none.
LastOf(call, kinds) ==
  LET ks == {k \in DOMAIN Given(call) : Given(call)[k] \in kinds}
  IN IF ks = {} THEN 0 ELSE CHOOSE k \in ks : \A m \in ks : m <= k

\* The number of options the method of the call implies.
ImpliedBy(call) == Len(Given(call)) - Len(call.opts)

\* The name, lifecycle and timing the call ends up with: the defaults
\* ("", singleton, lazy) unless an option of the kind is given, and then
\* what the last one of the kind says.
WinningName(call) ==
  LET k == LastOf(call, {"WithName"})
  IN IF k = 0 THEN ""
     ELSE IF k <= ImpliedBy(call) THEN call.name
     ELSE call.opts[k - ImpliedBy(call)].name

WinningSingleton(call) ==
  LET k == LastOf(call, {"WithSingleton", "WithTransient"})
  IN k = 0 \/ Given(call)[k] = "WithSingleton"

WinningLazy(call) ==
  LET k == LastOf(call, {"WithLazy", "WithEager"})
  IN k = 0 \/ Given(call)[k] = "WithLazy"

====
